---- MODULE Spec2Model ----
(***************************************************************************)
(* Limbo deployment: LimboDeploymentManager, NetworkCoordinator and        *)
(* DisVMManager as one state machine.  JavaScript runs every handler to    *)
(* its next await without interruption, so each action below is one such   *)
(* segment: the synchronous part of a call ("call") or the continuation    *)
(* that runs when the awaited promise is settled ("resume").               *)
(***************************************************************************)
EXTENDS Integers, Sequences, FiniteSets, TLC

\* ------------------------------------------------------------------ bounds
\* coordinators created, i.e. deploy() calls that pass the status guard
MaxCoord == 1
\* evaluate() calls in flight at the same time
MaxDisp == 2
\* evaluate() calls that pass the guards (requestCounter)
MaxReq == 2
\* send attempts of one dispatch
MaxAttempts == 3
\* largest target of scale()
MaxTarget == 3
\* round-robin selections of one coordinator
MaxRR == 4
\* health-check ticks in progress at the same time
MaxTicks == 2
\* deployNode and removeNode calls made on the coordinator at the same time
MaxNodeOps == 2
\* shutdown() calls suspended at the same time
MaxShutdowns == 1

\* ------------------------------------------------------- program constants
BasePort == 8000
DefaultPort == 8000

NoId == -1
Coords == 1..MaxCoord
Disp == 1..MaxDisp
Ticks == 1..MaxTicks
NodeOps == 1..MaxNodeOps
Shuts == 1..MaxShutdowns

VARIABLES status, coordinator, requestCounter, cfg,
          nCoord, nodes, isolates, leaked, roundRobinIndex, healthCheckTimer,
          dep, scl, shut, ev, tick, nodeOps, obs

mgrVars == <<status, coordinator, requestCounter, cfg>>
coVars == <<nCoord, nodes, isolates, leaked, roundRobinIndex, healthCheckTimer>>
procVars == <<dep, scl, shut, ev, tick, nodeOps>>
vars == <<status, coordinator, requestCounter, cfg,
          nCoord, nodes, isolates, leaked, roundRobinIndex, healthCheckTimer,
          dep, scl, shut, ev, tick, nodeOps, obs>>

\* ------------------------------------------------------------ configuration
\* generateNodeConfigs(count, "localhost", basePort): ids node-0 .. node-(count-1)
generateNodeConfigs(count, basePort) ==
    [k \in 1..count |-> [id |-> k - 1, port |-> basePort + (k - 1), weight |-> 1]]

\* NodeConfig.weight is optional: the value of a node config that gives none
NoWeight == 0

\* JavaScript truthiness of an optional string: undefined and "" are falsy
Truthy(str) == str \notin {"absent", ""}

\* variant of the node loop without the `nodeIds.has(node.id)` test
NodeErrorsNoDuplicates(node, nodeIds) ==
    (IF node.id = NoId THEN <<"id">> ELSE <<>>)
    \o (IF ~Truthy(node.address) THEN <<"address">> ELSE <<>>)
    \o (IF node.port = 0 \/ node.port < 1 \/ node.port > 65535
        THEN <<"port">> ELSE <<>>)

\* the body of the node loop of validateDeploymentConfig: nodeIds is the set
\* of ids seen so far
NodeErrors(node, nodeIds) ==
    (IF node.id = NoId THEN <<"id">>
     ELSE IF node.id \in nodeIds THEN <<"duplicate">>
     ELSE <<>>)
    \o (IF ~Truthy(node.address) THEN <<"address">> ELSE <<>>)
    \o (IF node.port = 0 \/ node.port < 1 \/ node.port > 65535
        THEN <<"port">> ELSE <<>>)

RECURSIVE ValidateNodes(_, _, _)
ValidateNodes(nds, k, nodeIds) ==
    IF k > Len(nds) THEN <<>>
    ELSE NodeErrors(nds[k], nodeIds)
         \o ValidateNodes(nds, k + 1,
                          IF nds[k].id = NoId THEN nodeIds ELSE nodeIds \cup {nds[k].id})

\* validateDeploymentConfig: the list of error messages
validateDeploymentConfig(config) ==
    (IF ~Truthy(config.name) THEN <<"name">> ELSE <<>>)
    \o (IF ~Truthy(config.modulePath) THEN <<"modulePath">> ELSE <<>>)
    \o (IF ~Truthy(config.modelPath) THEN <<"modelPath">> ELSE <<>>)
    \o (IF ~config.hasNodes \/ Len(config.nodes) = 0 THEN <<"nodes">> ELSE <<>>)
    \o (IF config.hasNodes THEN ValidateNodes(config.nodes, 1, {}) ELSE <<>>)

\* mergeWithDefaults: the node list as given, the default network settings
mergeWithDefaults(config) ==
    [nodes |-> [k \in 1..Len(config.nodes) |->
                  [id |-> config.nodes[k].id, port |-> config.nodes[k].port,
                   weight |-> NoWeight]],
     failover |-> TRUE, strategy |-> "round-robin"]

Strategies == {"round-robin", "least-connections", "random", "weighted-random"}

\* the node ids a deployment can hold: configured ones and the ones scale() makes
NodeIds == 0..(MaxTarget - 1)

\* ---------------------------------------------------------------- registry
NetworkNode(id, port) ==
    [id |-> id, port |-> IF port = 0 THEN DefaultPort ELSE port,
     isHealthy |-> TRUE, connections |-> 0, weight |-> 1]

IndexOf(nds, id) ==
    IF \E j \in 1..Len(nds) : nds[j].id = id
    THEN CHOOSE j \in 1..Len(nds) : nds[j].id = id
    ELSE 0

Has(nds, id) == IndexOf(nds, id) # 0

\* Map.set: a new key is appended, an existing key keeps its place
MapSet(nds, node) ==
    IF Has(nds, node.id)
    THEN [nds EXCEPT ![IndexOf(nds, node.id)] = node]
    ELSE Append(nds, node)

MapDelete(nds, id) == SelectSeq(nds, LAMBDA n : n.id # id)

SetHealthy(nds, id, h) ==
    [j \in 1..Len(nds) |->
        IF nds[j].id = id THEN [nds[j] EXCEPT !.isHealthy = h] ELSE nds[j]]

AddConnections(nds, id, k) ==
    [j \in 1..Len(nds) |->
        IF nds[j].id = id
        THEN [nds[j] EXCEPT !.connections = @ + k]
        ELSE nds[j]]

\* variant of selectNode without the filter of line 212
HealthyNodesUnfiltered(nds) == nds

HealthyNodes(nds) == SelectSeq(nds, LAMBDA n : n.isHealthy)

\* handleIsolateStopped, for every isolate of `ids` that stop() has just stopped
handleIsolateStopped(nds, ids) ==
    [j \in 1..Len(nds) |->
        IF nds[j].id \in ids THEN [nds[j] EXCEPT !.isHealthy = FALSE] ELSE nds[j]]

\* ------------------------------------------------------- what a step shows
\* obs is what the last step let its caller and the listeners see: the
\* operation and segment that ran, the settlement of the call (res is
\* "pending" while the call is suspended) and the notifications emitted.
Obs(op, phase, arg, res, emitted) ==
    [op |-> op, phase |-> phase, arg |-> arg, res |-> res,
     req |-> 0, node |-> NoId, sends |-> 0, emitted |-> emitted]

\* for evaluate: the request, the node of the send just issued or answered,
\* and the number of sends the dispatch has issued so far
ObsEval(phase, res, req, node, sends) ==
    [op |-> "evaluate", phase |-> phase, arg |-> 0, res |-> res,
     req |-> req, node |-> node, sends |-> sends, emitted |-> <<>>]

MgrEvent(name, arg) == <<"manager", name, arg>>
CoEvent(name, arg) == <<"coordinator", name, arg>>

Emitted(e) == \E k \in 1..Len(obs.emitted) : obs.emitted[k] = e

\* ----------------------------------------------------- suspended handlers
IdleDep == [pc |-> "idle", i |-> 0, c |-> 0, id |-> NoId, port |-> 0,
            err |-> "none"]
IdleScl == [pc |-> "idle", i |-> 0, c |-> 0, id |-> NoId, port |-> 0,
            err |-> "none", target |-> 0]
IdleShut == [pc |-> "idle", c |-> 0, from |-> "none"]
IdleEv == [pc |-> "idle", c |-> 0, req |-> 0, id |-> NoId, det |-> FALSE,
           out |-> "none", attempts |-> 0, behind |-> {}]
IdleTick == [pc |-> "idle", c |-> 0, pos |-> 0, id |-> NoId, det |-> FALSE,
             out |-> "none", behind |-> {}]
IdleNodeOp == [pc |-> "idle", c |-> 0, id |-> NoId, port |-> 0, behind |-> {}]

\* The deployNode and removeNode calls made on the coordinator for which
\* createIsolate or removeIsolate has returned into the `await` of the call:
\* the continuation of such a call (nodes.set, nodes.delete) is a promise job
\* that is already queued.
QueuedContinuations ==
    {p \in NodeOps : nodeOps[p].pc \in {"dnIsoSet", "rnIsoDel"}}

\* Promise jobs run in the order they were queued, and all of them before the
\* next timer callback.  The interval timer does not fire while a continuation
\* is queued.
ContinuationQueued == QueuedContinuations # {}

\* `behind` of a suspended call, dispatch or tick is the set of continuations
\* that were queued when its await began; the job that ends this await is
\* queued later, so it runs after them.  A job whose await began earlier may
\* run ahead of a queued continuation.
RunsAfterQueued(behind) == behind \cap QueuedContinuations # {}

\* the continuation of call p has run: nothing waits behind it any more
DispRunAhead(evs, p) ==
    [d \in Disp |-> [evs[d] EXCEPT !.behind = @ \ {p}]]

TicksRunAhead(ticks, p) ==
    [t \in Ticks |-> [ticks[t] EXCEPT !.behind = @ \ {p}]]

NodeOpsRunAhead(ops, p) ==
    [q \in NodeOps |-> [ops[q] EXCEPT !.behind = @ \ {p}]]

\* A suspended dispatch or probe holds its NetworkNode object.  Once the
\* registry no longer holds that object (deleted, cleared, or replaced by a
\* new object under the same id) the holder's writes reach no registered node.
EvDetach(c, ids) ==
    [d \in Disp |->
        IF ev[d].pc = "sending" /\ ev[d].c = c /\ ev[d].id \in ids
        THEN [ev[d] EXCEPT !.det = TRUE]
        ELSE ev[d]]

\* The Map iterator of a tick in progress: pos is the number of live entries
\* it has gone past, so deleting one of them moves it back by one.
TickAfterDelete(c, id) ==
    [t \in Ticks |->
        IF tick[t].pc = "probing" /\ tick[t].c = c /\ Has(nodes[c], id)
        THEN [tick[t] EXCEPT
                !.pos = IF IndexOf(nodes[c], id) <= @ THEN @ - 1 ELSE @,
                !.det = @ \/ tick[t].id = id]
        ELSE tick[t]]

TickAfterReplace(c, id) ==
    [t \in Ticks |->
        IF tick[t].pc = "probing" /\ tick[t].c = c /\ tick[t].id = id
           /\ Has(nodes[c], id)
        THEN [tick[t] EXCEPT !.det = TRUE]
        ELSE tick[t]]

TickAfterClear(c) ==
    [t \in Ticks |->
        IF tick[t].pc = "probing" /\ tick[t].c = c
        THEN [tick[t] EXCEPT !.pos = 0, !.det = TRUE]
        ELSE tick[t]]

\* ------------------------------------------------------------- DisVMIsolate
\* send(): rejected when the isolate is not running; what a running isolate's
\* transport answers is the environment's choice.
SendOutcomes(iso) == IF iso = "running" THEN {"ok", "fail"} ELSE {"fail"}

\* ------------------------------------------------------------- DisVMManager
\* createIsolate up to its await: throws when the id is in the map
CreateIsolateThrows(c, id) == isolates[c][id] # "none"

\* createIsolate after `await isolate.start()`: isolates.set(id, isolate).
\* An isolate object that leaves the map while running is never stopped.
IsolatesSet(c, id) ==
    /\ isolates' = [isolates EXCEPT ![c][id] = "running"]
    /\ leaked' = IF isolates[c][id] = "running"
                 THEN [leaked EXCEPT ![c] = @ \cup {id}]
                 ELSE leaked

\* variant of removeIsolate without `this.isolates.delete(isolateId)`
IsolatesDeleteForgotten(c, id) ==
    UNCHANGED <<isolates, leaked>>

\* removeIsolate after `await isolate.stop()`: isolates.delete(id)
IsolatesDelete(c, id) ==
    /\ isolates' = [isolates EXCEPT ![c][id] = "none"]
    /\ leaked' = IF isolates[c][id] = "running"
                 THEN [leaked EXCEPT ![c] = @ \cup {id}]
                 ELSE leaked

RunningIds(c) == {id \in NodeIds : isolates[c][id] = "running"}

\* ---------------------------------------------------------- load balancing
\* variant of selectRoundRobin without `this.roundRobinIndex++`
selectRoundRobinStuck(h, rr) == [id |-> h[(rr % Len(h)) + 1].id, rr |-> rr]

selectRoundRobin(h, rr) == [id |-> h[(rr % Len(h)) + 1].id, rr |-> rr + 1]

RECURSIVE ReduceLeastOrEqual(_, _, _)
\* variant of the reduce of selectLeastConnections with <= for <
ReduceLeastOrEqual(h, k, least) ==
    IF k > Len(h)
    THEN least
    ELSE ReduceLeastOrEqual(h, k + 1,
                            IF h[k].connections <= least.connections
                            THEN h[k] ELSE least)

RECURSIVE ReduceLeast(_, _, _)
ReduceLeast(h, k, least) ==
    IF k > Len(h)
    THEN least
    ELSE ReduceLeast(h, k + 1,
                     IF h[k].connections < least.connections THEN h[k] ELSE least)

selectLeastConnections(h) == ReduceLeast(h, 2, h[1])

\* Math.floor(Math.random() * nodes.length): any index
selectRandom(h) == {h[k].id : k \in 1..Len(h)}

RECURSIVE SumWeights(_, _)
SumWeights(h, k) == IF k = 0 THEN 0 ELSE SumWeights(h, k - 1) + h[k].weight

RECURSIVE WalkWeights(_, _, _)
WalkWeights(h, k, random) ==
    IF k > Len(h)
    THEN h[1].id
    ELSE IF random - 2 * h[k].weight <= 0
         THEN h[k].id
         ELSE WalkWeights(h, k + 1, random - 2 * h[k].weight)

\* Math.random() * totalWeight, drawn in steps of one half: a value from 0 up
\* to, and not including, the sum of the weights
WeightedRandoms(h) == 0..(2 * SumWeights(h, Len(h)) - 1)

selectWeightedRandom(h) ==
    {WalkWeights(h, 1, random) : random \in WeightedRandoms(h)}

\* selectNode: the nodes the strategy can return, with the cursor afterwards;
\* empty (null) when no registered node is healthy
selectNode(nds, rr) ==
    LET h == HealthyNodes(nds) IN
    IF Len(h) = 0 THEN {}
    ELSE IF cfg.strategy = "least-connections"
         THEN {[id |-> selectLeastConnections(h).id, rr |-> rr]}
    ELSE IF cfg.strategy = "random"
         THEN {[id |-> x, rr |-> rr] : x \in selectRandom(h)}
    ELSE IF cfg.strategy = "weighted-random"
         THEN {[id |-> x, rr |-> rr] : x \in selectWeightedRandom(h)}
    ELSE {selectRoundRobin(h, rr)}

\* ---------------------------------------------------------------- dispatch
\* One run of dispatch from its entry to the point where it suspends at
\* `await isolate.send(...)` (kind "sent", with what the send will answer) or
\* throws (kind "error").  The retry of the catch block is a synchronous
\* recursive call, so a chain of retries over nodes without isolate is part
\* of the same segment.
DispatchError(res, nds, rr) ==
    [kind |-> "error", res |-> res, nds |-> nds, rr |-> rr, id |-> NoId,
     out |-> "none"]

RECURSIVE dispatch(_, _, _)
RECURSIVE dispatchCatch(_, _, _, _, _, _)

\* variants of the catch block, each with one statement of lines 192-205 left
\* out: `node.connections--`, `node.isHealthy = false`, and the test of
\* enableFailover
dispatchCatchKeepsConnection(nds, rr, iso, id, det, err) ==
    IF cfg.failover
    THEN dispatch(IF det THEN nds ELSE SetHealthy(nds, id, FALSE), rr, iso)
    ELSE {DispatchError(err, nds, rr)}

dispatchCatchKeepsHealthy(nds, rr, iso, id, det, err) ==
    LET dec == IF det THEN nds ELSE AddConnections(nds, id, -1) IN
    IF cfg.failover
    THEN dispatch(dec, rr, iso)
    ELSE {DispatchError(err, dec, rr)}

dispatchCatchAlwaysRetries(nds, rr, iso, id, det, err) ==
    LET dec == IF det THEN nds ELSE AddConnections(nds, id, -1) IN
    dispatch(IF det THEN dec ELSE SetHealthy(dec, id, FALSE), rr, iso)

\* variant of the catch block that writes to the node registered under the id
\* instead of the NetworkNode object the dispatch holds
dispatchCatchById(nds, rr, iso, id, det, err) ==
    LET dec == AddConnections(nds, id, -1) IN
    IF cfg.failover
    THEN dispatch(SetHealthy(dec, id, FALSE), rr, iso)
    ELSE {DispatchError(err, dec, rr)}

\* the catch block: node is the held NetworkNode (det: no longer registered)
dispatchCatch(nds, rr, iso, id, det, err) ==
    LET dec == IF det THEN nds ELSE AddConnections(nds, id, -1) IN
    IF cfg.failover
    THEN dispatch(IF det THEN dec ELSE SetHealthy(dec, id, FALSE), rr, iso)
    ELSE {DispatchError(err, dec, rr)}

dispatch(nds, rr, iso) ==
    LET sel == selectNode(nds, rr) IN
    IF sel = {}
    THEN {DispatchError("NoHealthyNodes", nds, rr)}
    ELSE UNION {
           LET inc == AddConnections(nds, s.id, 1) IN
           IF iso[s.id] = "none"
           THEN dispatchCatch(inc, s.rr, iso, s.id, FALSE, "IsolateNotFound")
           ELSE {[kind |-> "sent", res |-> "pending", nds |-> inc, rr |-> s.rr,
                  id |-> s.id, out |-> o] : o \in SendOutcomes(iso[s.id])}
           : s \in sel}

\* variant of the try block that decrements the node registered under the id
\* instead of the NetworkNode object the dispatch holds
sendResolvedById(nds, id, det) == AddConnections(nds, id, -1)

\* the try block after the await, when the send resolved
sendResolved(nds, id, det) == IF det THEN nds ELSE AddConnections(nds, id, -1)

\* ------------------------------------------------------------ health check
\* performHealthCheck from entry `pos` of the Map iterator to its next await
RECURSIVE performHealthCheck(_, _, _)
performHealthCheck(nds, iso, pos) ==
    IF pos >= Len(nds)
    THEN {[kind |-> "done", nds |-> nds, pos |-> pos, id |-> NoId, out |-> "none"]}
    ELSE IF iso[nds[pos + 1].id] = "none"
         THEN performHealthCheck(SetHealthy(nds, nds[pos + 1].id, FALSE), iso,
                                 pos + 1)
         ELSE {[kind |-> "probing", nds |-> nds, pos |-> pos + 1,
                id |-> nds[pos + 1].id, out |-> o]
               : o \in SendOutcomes(iso[nds[pos + 1].id])}

\* variant of performHealthCheck without `node.isHealthy = true` (line 291)
probeSettledNeverRevives(nds, id, det, out) ==
    IF det \/ out = "ok" THEN nds ELSE SetHealthy(nds, id, FALSE)

\* the probe's await settled: lines 291 and 294-295
probeSettled(nds, id, det, out) ==
    IF det THEN nds ELSE SetHealthy(nds, id, out = "ok")

\* what the settled probe emits: node-unhealthy from the catch block, line 295
probeEmits(id, out) ==
    IF out = "ok" THEN <<>> ELSE <<CoEvent("node-unhealthy", id)>>

\* ------------------------------------------------------------- constructor
\* new LimboDeploymentManager(config): before the call cfg holds the
\* argument and no manager exists (status "none"); the constructor throws
\* when validateDeploymentConfig reports an error, else keeps the merged
\* configuration, with status Stopped and no coordinator
Construct ==
    /\ status = "none"
    /\ IF Len(validateDeploymentConfig(cfg)) > 0
       THEN /\ obs' = Obs("new", "call", 0, "ValidationError", <<>>)
            /\ UNCHANGED <<mgrVars, coVars, procVars>>
       ELSE /\ status' = "stopped"
            /\ cfg' = mergeWithDefaults(cfg)
            /\ obs' = Obs("new", "call", 0, "ok", <<>>)
            /\ UNCHANGED <<coordinator, requestCounter, coVars, procVars>>

\* ======================================================= LimboDeploymentManager
\* ------------------------------------------------------------------ deploy
\* deploy() up to `await this.coordinator.initialize()`; initialize() itself
\* has no await, so the timer is started in this segment
DeployCall ==
    IF status # "stopped"
    THEN /\ obs' = Obs("deploy", "call", 0, "InvalidState", <<>>)
         /\ UNCHANGED <<mgrVars, coVars, procVars>>
    ELSE /\ dep.pc = "idle"
         /\ nCoord < MaxCoord
         /\ status' = "initializing"
         /\ nCoord' = nCoord + 1
         /\ coordinator' = nCoord + 1
         /\ healthCheckTimer' = [healthCheckTimer EXCEPT ![nCoord + 1] = TRUE]
         /\ dep' = [IdleDep EXCEPT !.pc = "init"]
         /\ obs' = Obs("deploy", "call", 0, "pending",
                       <<MgrEvent("status-change", "initializing"),
                         CoEvent("initialized", 0)>>)
         /\ UNCHANGED <<requestCounter, cfg, nodes, isolates, leaked,
                        roundRobinIndex, scl, shut, ev, tick, nodeOps>>

\* the catch block of deploy()
DeployFailed(err) ==
    /\ status' = "error"
    /\ dep' = IdleDep
    /\ obs' = Obs("deploy", "resume", 0, err,
                  <<MgrEvent("status-change", "error"), MgrEvent("error", err)>>)
    /\ UNCHANGED <<coordinator, requestCounter, cfg, coVars, scl, shut, ev, tick, nodeOps>>

\* the for loop of deploy(): the next deployNode call up to the await inside
\* createIsolate, or the end of the loop
DeployLoop ==
    /\ dep.pc \in {"init", "dnDone"}
    /\ IF dep.i >= Len(cfg.nodes)
       THEN /\ status' = "running"
            /\ dep' = IdleDep
            /\ obs' = Obs("deploy", "resume", 0, "ok",
                          <<MgrEvent("status-change", "running"),
                            MgrEvent("deployed", 0)>>)
            /\ UNCHANGED <<coordinator, requestCounter, cfg, coVars, scl, shut,
                           ev, tick, nodeOps>>
       ELSE IF coordinator = 0
       THEN DeployFailed("TypeError")
       ELSE /\ dep' = [dep EXCEPT
                         !.pc = IF CreateIsolateThrows(coordinator,
                                                       cfg.nodes[dep.i + 1].id)
                                THEN "dnThrow" ELSE "dnStarted",
                         !.i = dep.i + 1,
                         !.c = coordinator,
                         !.id = cfg.nodes[dep.i + 1].id,
                         !.port = cfg.nodes[dep.i + 1].port,
                         !.err = "IsolateExists"]
            /\ obs' = Obs("deploy", "resume", 0, "pending", <<>>)
            /\ UNCHANGED <<mgrVars, coVars, scl, shut, ev, tick, nodeOps>>

\* createIsolate resumes after `await isolate.start()`
DeployIsolateStarted ==
    /\ dep.pc = "dnStarted"
    /\ IsolatesSet(dep.c, dep.id)
    /\ dep' = [dep EXCEPT !.pc = "dnIsoSet"]
    /\ obs' = Obs("deploy", "resume", 0, "pending", <<>>)
    /\ UNCHANGED <<mgrVars, nCoord, nodes, roundRobinIndex, healthCheckTimer,
                   scl, shut, ev, tick, nodeOps>>

\* deployNode resumes after `await this.disVMManager.createIsolate(config)`
DeployNodeRegistered ==
    /\ dep.pc = "dnIsoSet"
    /\ nodes' = [nodes EXCEPT ![dep.c] = MapSet(@, NetworkNode(dep.id, dep.port))]
    /\ ev' = IF Has(nodes[dep.c], dep.id) THEN EvDetach(dep.c, {dep.id}) ELSE ev
    /\ tick' = TickAfterReplace(dep.c, dep.id)
    /\ dep' = [dep EXCEPT !.pc = "dnDone"]
    /\ obs' = Obs("deploy", "resume", 0, "pending",
                  <<CoEvent("node-deployed", dep.id)>>)
    /\ UNCHANGED <<mgrVars, nCoord, isolates, leaked, roundRobinIndex,
                   healthCheckTimer, scl, shut, nodeOps>>

\* the rejection of deployNode reaches deploy()'s catch block
DeployCatch ==
    /\ dep.pc = "dnThrow"
    /\ DeployFailed(dep.err)

\* ---------------------------------------------------------- pause / resume
\* variant of pause() without the status test of line 145
PauseUnguarded ==
    /\ status' = "paused"
    /\ obs' = Obs("pause", "call", 0, "ok", <<MgrEvent("status-change", "paused")>>)
    /\ UNCHANGED <<coordinator, requestCounter, cfg, coVars, procVars>>

\* variant of pause() that also cancels the health-check timer
PauseStopsTimer ==
    /\ IF status # "running"
       THEN /\ obs' = Obs("pause", "call", 0, "InvalidState", <<>>)
            /\ UNCHANGED <<status, healthCheckTimer>>
       ELSE /\ status' = "paused"
            /\ healthCheckTimer' = [c \in Coords |-> FALSE]
            /\ obs' = Obs("pause", "call", 0, "ok",
                          <<MgrEvent("status-change", "paused")>>)
    /\ UNCHANGED <<coordinator, requestCounter, cfg, nCoord, nodes, isolates,
                   leaked, roundRobinIndex, procVars>>

Pause ==
    /\ IF status # "running"
       THEN /\ obs' = Obs("pause", "call", 0, "InvalidState", <<>>)
            /\ UNCHANGED status
       ELSE /\ status' = "paused"
            /\ obs' = Obs("pause", "call", 0, "ok",
                          <<MgrEvent("status-change", "paused")>>)
    /\ UNCHANGED <<coordinator, requestCounter, cfg, coVars, procVars>>

\* variant of resume() without `this.emit("status-change", this.status)`
ResumeSilent ==
    /\ IF status # "paused"
       THEN /\ obs' = Obs("resume", "call", 0, "InvalidState", <<>>)
            /\ UNCHANGED status
       ELSE /\ status' = "running"
            /\ obs' = Obs("resume", "call", 0, "ok", <<>>)
    /\ UNCHANGED <<coordinator, requestCounter, cfg, coVars, procVars>>

Resume ==
    /\ IF status # "paused"
       THEN /\ obs' = Obs("resume", "call", 0, "InvalidState", <<>>)
            /\ UNCHANGED status
       ELSE /\ status' = "running"
            /\ obs' = Obs("resume", "call", 0, "ok",
                          <<MgrEvent("status-change", "running")>>)
    /\ UNCHANGED <<coordinator, requestCounter, cfg, coVars, procVars>>

\* ---------------------------------------------------------------- shutdown
\* no call of shutdown() is suspended
NoShutdownSuspended == \A s \in Shuts : shut[s].pc = "idle"

\* the end of LimboDeploymentManager.shutdown, lines 254-259
ShutdownDone(phase) ==
    /\ coordinator' = IF phase = "call" THEN coordinator ELSE 0
    /\ status' = "stopped"
    /\ obs' = Obs("shutdown", phase, 0, "ok",
                  <<MgrEvent("status-change", "stopped"), MgrEvent("shutdown", 0)>>)

\* coordinator.shutdown() up to the await of Promise.all inside stopAll: the
\* timer is cleared and stop() is called on every isolate of the map; s is
\* the first free slot
ShutdownStopAll(s) ==
    /\ shut[s].pc = "idle"
    /\ \A r \in 1..(s - 1) : shut[r].pc # "idle"
    /\ healthCheckTimer' = [healthCheckTimer EXCEPT ![coordinator] = FALSE]
    /\ isolates' = [isolates EXCEPT ![coordinator] =
           [id \in NodeIds |-> IF @[id] = "running" THEN "stopped" ELSE @[id]]]
    /\ nodes' = [nodes EXCEPT ![coordinator] =
           handleIsolateStopped(@, RunningIds(coordinator))]
    /\ shut' = [shut EXCEPT ![s] =
                  [pc |-> "stopAll", c |-> coordinator, from |-> status]]
    /\ obs' = Obs("shutdown", "call", 0, "pending", <<>>)
    /\ UNCHANGED <<mgrVars, nCoord, leaked, roundRobinIndex, dep,
                   scl, ev, tick, nodeOps>>

\* variant of shutdown() without the early return of lines 246-248
ShutdownCallAlways(s) ==
    IF coordinator = 0
    THEN /\ ShutdownDone("call")
         /\ UNCHANGED <<requestCounter, cfg, coVars, procVars>>
    ELSE ShutdownStopAll(s)

\* shutdown() up to the await inside stopAll, or to its end when the manager
\* holds no coordinator
ShutdownCall(s) ==
    IF status = "stopped"
    THEN /\ obs' = Obs("shutdown", "call", 0, "ok", <<>>)
         /\ UNCHANGED <<mgrVars, coVars, procVars>>
    ELSE IF coordinator = 0
    THEN /\ ShutdownDone("call")
         /\ UNCHANGED <<requestCounter, cfg, coVars, procVars>>
    ELSE ShutdownStopAll(s)

\* stopAll resumes after `await Promise.all(promises)`: isolates.clear()
ShutdownIsolatesCleared(s) ==
    /\ shut[s].pc = "stopAll"
    /\ isolates' = [isolates EXCEPT ![shut[s].c] = [id \in NodeIds |-> "none"]]
    /\ leaked' = [leaked EXCEPT ![shut[s].c] = @ \cup RunningIds(shut[s].c)]
    /\ shut' = [shut EXCEPT ![s].pc = "coordShutdown"]
    /\ obs' = Obs("shutdown", "resume", 0, "pending", <<>>)
    /\ UNCHANGED <<mgrVars, nCoord, nodes, roundRobinIndex, healthCheckTimer,
                   dep, scl, ev, tick, nodeOps>>

\* NetworkCoordinator.shutdown resumes after `await stopAll()`: nodes.clear()
ShutdownNodesCleared(s) ==
    /\ shut[s].pc = "coordShutdown"
    /\ nodes' = [nodes EXCEPT ![shut[s].c] = <<>>]
    /\ ev' = EvDetach(shut[s].c, NodeIds)
    /\ tick' = TickAfterClear(shut[s].c)
    /\ shut' = [shut EXCEPT ![s].pc = "mgrShutdown"]
    /\ obs' = Obs("shutdown", "resume", 0, "pending", <<CoEvent("shutdown", 0)>>)
    /\ UNCHANGED <<mgrVars, nCoord, isolates, leaked, roundRobinIndex,
                   healthCheckTimer, dep, scl, nodeOps>>

\* LimboDeploymentManager.shutdown resumes after `await coordinator.shutdown()`
ShutdownResume(s) ==
    /\ shut[s].pc = "mgrShutdown"
    /\ ShutdownDone("resume")
    /\ shut' = [shut EXCEPT ![s] = IdleShut]
    /\ UNCHANGED <<requestCounter, cfg, coVars, dep, scl, ev, tick, nodeOps>>

\* ---------------------------------------------------------------- evaluate
\* what one segment of dispatch leaves behind: r is one result of dispatch
DispatchSettle(d, c, req, attempts, r, phase) ==
    /\ r.rr <= MaxRR
    /\ nodes' = [nodes EXCEPT ![c] = r.nds]
    /\ roundRobinIndex' = [roundRobinIndex EXCEPT ![c] = r.rr]
    /\ IF r.kind = "sent"
       THEN /\ attempts < MaxAttempts
            /\ ev' = [ev EXCEPT ![d] =
                        [pc |-> "sending", c |-> c, req |-> req, id |-> r.id,
                         det |-> FALSE, out |-> r.out, attempts |-> attempts + 1,
                         behind |-> QueuedContinuations]]
            /\ obs' = ObsEval(phase, "pending", req, r.id, attempts + 1)
       ELSE /\ ev' = [ev EXCEPT ![d] = IdleEv]
            /\ obs' = ObsEval(phase, r.res, req, NoId, attempts)

\* variant of evaluate() without the status test of lines 116-118
EvaluateUnguarded(d) ==
    IF coordinator = 0
    THEN /\ obs' = ObsEval("call", "NotInitialized", 0, NoId, 0)
         /\ UNCHANGED <<mgrVars, coVars, procVars>>
    ELSE /\ ev[d].pc = "idle"
         /\ requestCounter < MaxReq
         /\ requestCounter' = requestCounter + 1
         /\ \E r \in dispatch(nodes[coordinator], roundRobinIndex[coordinator],
                              isolates[coordinator]) :
               DispatchSettle(d, coordinator, requestCounter + 1, 0, r, "call")
         /\ UNCHANGED <<status, coordinator, cfg, nCoord, isolates, leaked,
                        healthCheckTimer, dep, scl, shut, tick, nodeOps>>

\* evaluate() up to the await of isolate.send inside dispatch
Evaluate(d) ==
    IF status # "running"
    THEN /\ obs' = ObsEval("call", "InvalidState", 0, NoId, 0)
         /\ UNCHANGED <<mgrVars, coVars, procVars>>
    ELSE IF coordinator = 0
    THEN /\ obs' = ObsEval("call", "NotInitialized", 0, NoId, 0)
         /\ UNCHANGED <<mgrVars, coVars, procVars>>
    ELSE /\ ev[d].pc = "idle"
         /\ requestCounter < MaxReq
         /\ requestCounter' = requestCounter + 1
         /\ \E r \in dispatch(nodes[coordinator], roundRobinIndex[coordinator],
                              isolates[coordinator]) :
               DispatchSettle(d, coordinator, requestCounter + 1, 0, r, "call")
         /\ UNCHANGED <<status, coordinator, cfg, nCoord, isolates, leaked,
                        healthCheckTimer, dep, scl, shut, tick, nodeOps>>

\* variant of dispatch whose retry in the catch block builds a new request
\* instead of passing `request` on
EvaluateResumeReissues(d) ==
    /\ ev[d].pc = "sending"
    /\ ~RunsAfterQueued(ev[d].behind)
    /\ IF ev[d].out = "ok"
       THEN /\ nodes' = [nodes EXCEPT ![ev[d].c] = sendResolved(@, ev[d].id, ev[d].det)]
            /\ ev' = [ev EXCEPT ![d] = IdleEv]
            /\ obs' = ObsEval("resume", "ok", ev[d].req, ev[d].id, ev[d].attempts)
            /\ UNCHANGED roundRobinIndex
       ELSE \E r \in dispatchCatch(nodes[ev[d].c], roundRobinIndex[ev[d].c],
                                   isolates[ev[d].c], ev[d].id, ev[d].det,
                                   "SendError") :
               DispatchSettle(d, ev[d].c, ev[d].req + 1, ev[d].attempts, r, "resume")
    /\ UNCHANGED <<mgrVars, nCoord, isolates, leaked, healthCheckTimer, dep, scl,
                   shut, tick, nodeOps>>

\* dispatch resumes after `await isolate.send(...)`
EvaluateResume(d) ==
    /\ ev[d].pc = "sending"
    /\ ~RunsAfterQueued(ev[d].behind)
    /\ IF ev[d].out = "ok"
       THEN /\ nodes' = [nodes EXCEPT ![ev[d].c] = sendResolved(@, ev[d].id, ev[d].det)]
            /\ ev' = [ev EXCEPT ![d] = IdleEv]
            /\ obs' = ObsEval("resume", "ok", ev[d].req, ev[d].id, ev[d].attempts)
            /\ UNCHANGED roundRobinIndex
       ELSE \E r \in dispatchCatch(nodes[ev[d].c], roundRobinIndex[ev[d].c],
                                   isolates[ev[d].c], ev[d].id, ev[d].det,
                                   "SendError") :
               DispatchSettle(d, ev[d].c, ev[d].req, ev[d].attempts, r, "resume")
    /\ UNCHANGED <<mgrVars, nCoord, isolates, leaked, healthCheckTimer, dep, scl,
                   shut, tick, nodeOps>>

\* dispatch resumes after `await isolate.send(...)`, for chains of retries of
\* any length: a send that follows the MaxAttempts-th one leaves the count of
\* sends at MaxAttempts, a dispatch that ends reports the count it has
EvaluateRetry(d) ==
    /\ ev[d].pc = "sending"
    /\ ~RunsAfterQueued(ev[d].behind)
    /\ IF ev[d].out = "ok"
       THEN /\ nodes' = [nodes EXCEPT ![ev[d].c] = sendResolved(@, ev[d].id, ev[d].det)]
            /\ ev' = [ev EXCEPT ![d] = IdleEv]
            /\ obs' = ObsEval("resume", "ok", ev[d].req, ev[d].id, ev[d].attempts)
            /\ UNCHANGED roundRobinIndex
       ELSE \E r \in dispatchCatch(nodes[ev[d].c], roundRobinIndex[ev[d].c],
                                   isolates[ev[d].c], ev[d].id, ev[d].det,
                                   "SendError") :
               DispatchSettle(d, ev[d].c, ev[d].req,
                              IF r.kind = "sent" /\ ev[d].attempts >= MaxAttempts
                              THEN MaxAttempts - 1 ELSE ev[d].attempts,
                              r, "resume")
    /\ UNCHANGED <<mgrVars, nCoord, isolates, leaked, healthCheckTimer, dep, scl,
                   shut, tick, nodeOps>>

\* ------------------------------------------------------------ health check
TickSettle(t, c, r, emitted) ==
    /\ nodes' = [nodes EXCEPT ![c] = r.nds]
    /\ tick' = [tick EXCEPT ![t] =
                  IF r.kind = "done" THEN IdleTick
                  ELSE [pc |-> "probing", c |-> c, pos |-> r.pos, id |-> r.id,
                        det |-> FALSE, out |-> r.out,
                        behind |-> QueuedContinuations]]
    /\ obs' = Obs("healthCheck", IF r.kind = "done" THEN "done" ELSE "probe",
                  r.id, "pending", emitted)

\* the interval timer fires: performHealthCheck up to its first await
HealthCheckTick(t, c) ==
    /\ healthCheckTimer[c]
    /\ tick[t].pc = "idle"
    /\ ~ContinuationQueued
    /\ \E r \in performHealthCheck(nodes[c], isolates[c], 0) :
          TickSettle(t, c, r, <<>>)
    /\ UNCHANGED <<mgrVars, nCoord, isolates, leaked, roundRobinIndex,
                   healthCheckTimer, dep, scl, shut, ev, nodeOps>>

\* performHealthCheck resumes after `await isolate.send(...)`
HealthCheckResume(t) ==
    /\ tick[t].pc = "probing"
    /\ ~RunsAfterQueued(tick[t].behind)
    /\ \E r \in performHealthCheck(
                   probeSettled(nodes[tick[t].c], tick[t].id, tick[t].det,
                                tick[t].out),
                   isolates[tick[t].c], tick[t].pos) :
          TickSettle(t, tick[t].c, r, probeEmits(tick[t].id, tick[t].out))
    /\ UNCHANGED <<mgrVars, nCoord, isolates, leaked, roundRobinIndex,
                   healthCheckTimer, dep, scl, shut, ev, nodeOps>>

\* ------------------------------------------------------------------- scale
\* one iteration of a loop of scale() up to its await, or the end of the loop
ScaleIteration(i, target, phase) ==
    LET cur == Len(cfg.nodes)
        up == target > cur
        count == IF up THEN target - cur ELSE cur - target
        id == IF up THEN cur + i
              ELSE IF cur - i >= 1 THEN cfg.nodes[cur - i].id ELSE NoId
        err == IF up THEN "IsolateExists"
               ELSE IF ~Has(nodes[coordinator], id) THEN "NodeNotFound"
               ELSE IF isolates[coordinator][id] = "none" THEN "IsolateNotFound"
               ELSE "none"
    IN
    IF i >= count
    THEN /\ scl' = IdleScl
         /\ obs' = Obs("scale", phase, target, "ok", <<MgrEvent("scaled", target)>>)
         /\ UNCHANGED <<mgrVars, coVars, dep, shut, ev, tick, nodeOps>>
    ELSE IF coordinator = 0 \/ id = NoId
    THEN /\ scl' = IdleScl
         /\ obs' = Obs("scale", phase, target, "TypeError", <<>>)
         /\ UNCHANGED <<mgrVars, coVars, dep, shut, ev, tick, nodeOps>>
    ELSE IF up
    THEN /\ scl' = [pc |-> IF CreateIsolateThrows(coordinator, id)
                           THEN "dnThrow" ELSE "dnStarted",
                    i |-> i, c |-> coordinator, id |-> id,
                    port |-> BasePort + cur + i, err |-> err, target |-> target]
         /\ obs' = Obs("scale", phase, target, "pending", <<>>)
         /\ UNCHANGED <<mgrVars, coVars, dep, shut, ev, tick, nodeOps>>
    ELSE /\ scl' = [pc |-> IF err = "none" THEN "rnStopped" ELSE "rnThrow",
                    i |-> i, c |-> coordinator, id |-> id, port |-> 0,
                    err |-> err, target |-> target]
         /\ isolates' = IF err = "none"
                        THEN [isolates EXCEPT ![coordinator][id] = "stopped"]
                        ELSE isolates
         /\ nodes' = IF err = "none" /\ isolates[coordinator][id] = "running"
                     THEN [nodes EXCEPT ![coordinator] = handleIsolateStopped(@, {id})]
                     ELSE nodes
         /\ obs' = Obs("scale", phase, target, "pending", <<>>)
         /\ UNCHANGED <<mgrVars, nCoord, leaked, roundRobinIndex,
                        healthCheckTimer, dep, shut, ev, tick, nodeOps>>

ScaleCall(target) ==
    IF status # "running"
    THEN /\ obs' = Obs("scale", "call", target, "InvalidState", <<>>)
         /\ UNCHANGED <<mgrVars, coVars, procVars>>
    ELSE IF coordinator = 0
    THEN /\ obs' = Obs("scale", "call", target, "NotInitialized", <<>>)
         /\ UNCHANGED <<mgrVars, coVars, procVars>>
    ELSE IF target = Len(cfg.nodes)
    THEN /\ obs' = Obs("scale", "call", target, "ok", <<>>)
         /\ UNCHANGED <<mgrVars, coVars, procVars>>
    ELSE /\ scl.pc = "idle"
         /\ ScaleIteration(0, target, "call")

\* scale() resumes after `await deployNode(...)` or `await removeNode(...)`
ScaleLoop ==
    /\ scl.pc \in {"dnDone", "rnDone"}
    /\ ScaleIteration(scl.i + 1, scl.target, "resume")

\* createIsolate resumes after `await isolate.start()`
ScaleIsolateStarted ==
    /\ scl.pc = "dnStarted"
    /\ IsolatesSet(scl.c, scl.id)
    /\ scl' = [scl EXCEPT !.pc = "dnIsoSet"]
    /\ obs' = Obs("scale", "resume", scl.target, "pending", <<>>)
    /\ UNCHANGED <<mgrVars, nCoord, nodes, roundRobinIndex, healthCheckTimer,
                   dep, shut, ev, tick, nodeOps>>

\* deployNode resumes after `await createIsolate(...)`
ScaleNodeRegistered ==
    /\ scl.pc = "dnIsoSet"
    /\ nodes' = [nodes EXCEPT ![scl.c] = MapSet(@, NetworkNode(scl.id, scl.port))]
    /\ ev' = IF Has(nodes[scl.c], scl.id) THEN EvDetach(scl.c, {scl.id}) ELSE ev
    /\ tick' = TickAfterReplace(scl.c, scl.id)
    /\ scl' = [scl EXCEPT !.pc = "dnDone"]
    /\ obs' = Obs("scale", "resume", scl.target, "pending",
                  <<CoEvent("node-deployed", scl.id)>>)
    /\ UNCHANGED <<mgrVars, nCoord, isolates, leaked, roundRobinIndex,
                   healthCheckTimer, dep, shut, nodeOps>>

\* removeIsolate resumes after `await isolate.stop()`
ScaleIsolateStopped ==
    /\ scl.pc = "rnStopped"
    /\ IsolatesDelete(scl.c, scl.id)
    /\ scl' = [scl EXCEPT !.pc = "rnIsoDel"]
    /\ obs' = Obs("scale", "resume", scl.target, "pending", <<>>)
    /\ UNCHANGED <<mgrVars, nCoord, nodes, roundRobinIndex, healthCheckTimer,
                   dep, shut, ev, tick, nodeOps>>

\* removeNode resumes after `await removeIsolate(nodeId)`
ScaleNodeRemoved ==
    /\ scl.pc = "rnIsoDel"
    /\ nodes' = [nodes EXCEPT ![scl.c] = MapDelete(@, scl.id)]
    /\ ev' = EvDetach(scl.c, {scl.id})
    /\ tick' = TickAfterDelete(scl.c, scl.id)
    /\ scl' = [scl EXCEPT !.pc = "rnDone"]
    /\ obs' = Obs("scale", "resume", scl.target, "pending",
                  <<CoEvent("node-removed", scl.id)>>)
    /\ UNCHANGED <<mgrVars, nCoord, isolates, leaked, roundRobinIndex,
                   healthCheckTimer, dep, shut, nodeOps>>

\* variant of scale() that catches the rejection and goes on with the batch
ScaleThrowContinues ==
    /\ scl.pc \in {"dnThrow", "rnThrow"}
    /\ ScaleIteration(scl.i + 1, scl.target, "resume")

\* the rejection of deployNode or removeNode rejects scale()
ScaleThrow ==
    /\ scl.pc \in {"dnThrow", "rnThrow"}
    /\ scl' = IdleScl
    /\ obs' = Obs("scale", "resume", scl.target, scl.err, <<>>)
    /\ UNCHANGED <<mgrVars, coVars, dep, shut, ev, tick, nodeOps>>

\* ------------------------------------------- deployNode / removeNode called
\* directly on the coordinator; p is the slot of the suspended call
\* deployNode up to the await inside createIsolate
DeployNodeCall(p, id, port) ==
    /\ nodeOps[p].pc = "idle"
    /\ nCoord >= 1
    /\ IF CreateIsolateThrows(1, id)
       THEN /\ obs' = Obs("deployNode", "call", id, "IsolateExists", <<>>)
            /\ UNCHANGED <<mgrVars, coVars, procVars>>
       ELSE /\ nodeOps' = [nodeOps EXCEPT ![p] =
                               [pc |-> "dnStarted", c |-> 1, id |-> id, port |-> port,
                                behind |-> QueuedContinuations]]
            /\ obs' = Obs("deployNode", "call", id, "pending", <<>>)
            /\ UNCHANGED <<mgrVars, coVars, dep, scl, shut, ev, tick>>

\* createIsolate resumes after `await isolate.start()`
DeployNodeIsolateStarted(p) ==
    /\ nodeOps[p].pc = "dnStarted"
    /\ ~RunsAfterQueued(nodeOps[p].behind)
    /\ IsolatesSet(nodeOps[p].c, nodeOps[p].id)
    /\ nodeOps' = [nodeOps EXCEPT ![p].pc = "dnIsoSet",
                                  ![p].behind = QueuedContinuations]
    /\ obs' = Obs("deployNode", "resume", nodeOps[p].id, "pending", <<>>)
    /\ UNCHANGED <<mgrVars, nCoord, nodes, roundRobinIndex, healthCheckTimer,
                   dep, scl, shut, ev, tick>>

\* deployNode resumes after `await createIsolate(...)` and runs to its end
DeployNodeResume(p) ==
    LET c == nodeOps[p].c
        id == nodeOps[p].id
    IN
    /\ nodeOps[p].pc = "dnIsoSet"
    /\ ~RunsAfterQueued(nodeOps[p].behind)
    /\ nodes' = [nodes EXCEPT ![c] = MapSet(@, NetworkNode(id, nodeOps[p].port))]
    /\ ev' = DispRunAhead(IF Has(nodes[c], id) THEN EvDetach(c, {id}) ELSE ev, p)
    /\ tick' = TicksRunAhead(TickAfterReplace(c, id), p)
    /\ nodeOps' = NodeOpsRunAhead([nodeOps EXCEPT ![p] = IdleNodeOp], p)
    /\ obs' = Obs("deployNode", "resume", id, "ok", <<CoEvent("node-deployed", id)>>)
    /\ UNCHANGED <<mgrVars, nCoord, isolates, leaked, roundRobinIndex,
                   healthCheckTimer, dep, scl, shut>>

\* removeIsolate up to its await: throws when the id is not in the map, else
\* isolate.stop() runs (a running isolate emits "stopped" on the way)
RemoveIsolateCall(p, id) ==
    IF isolates[1][id] = "none"
    THEN /\ obs' = Obs("removeNode", "call", id, "IsolateNotFound", <<>>)
         /\ UNCHANGED <<mgrVars, coVars, procVars>>
    ELSE /\ isolates' = [isolates EXCEPT ![1][id] = "stopped"]
         /\ nodes' = IF isolates[1][id] = "running"
                     THEN [nodes EXCEPT ![1] = handleIsolateStopped(@, {id})]
                     ELSE nodes
         /\ nodeOps' = [nodeOps EXCEPT ![p] =
                            [pc |-> "rnStopped", c |-> 1, id |-> id, port |-> 0,
                             behind |-> QueuedContinuations]]
         /\ obs' = Obs("removeNode", "call", id, "pending", <<>>)
         /\ UNCHANGED <<mgrVars, nCoord, leaked, roundRobinIndex,
                        healthCheckTimer, dep, scl, shut, ev, tick>>

\* variant of removeNode without the `if (!node) throw` test
RemoveNodeCallUnchecked(p, id) ==
    /\ nodeOps[p].pc = "idle"
    /\ nCoord >= 1
    /\ RemoveIsolateCall(p, id)

\* removeNode up to the await inside removeIsolate
RemoveNodeCall(p, id) ==
    /\ nodeOps[p].pc = "idle"
    /\ nCoord >= 1
    /\ IF ~Has(nodes[1], id)
       THEN /\ obs' = Obs("removeNode", "call", id, "NodeNotFound", <<>>)
            /\ UNCHANGED <<mgrVars, coVars, procVars>>
       ELSE RemoveIsolateCall(p, id)

\* removeIsolate resumes after `await isolate.stop()`
RemoveNodeIsolateStopped(p) ==
    /\ nodeOps[p].pc = "rnStopped"
    /\ ~RunsAfterQueued(nodeOps[p].behind)
    /\ IsolatesDelete(nodeOps[p].c, nodeOps[p].id)
    /\ nodeOps' = [nodeOps EXCEPT ![p].pc = "rnIsoDel",
                                  ![p].behind = QueuedContinuations]
    /\ obs' = Obs("removeNode", "resume", nodeOps[p].id, "pending", <<>>)
    /\ UNCHANGED <<mgrVars, nCoord, nodes, roundRobinIndex, healthCheckTimer,
                   dep, scl, shut, ev, tick>>

\* removeNode resumes after `await removeIsolate(nodeId)` and runs to its end
RemoveNodeResume(p) ==
    LET c == nodeOps[p].c
        id == nodeOps[p].id
    IN
    /\ nodeOps[p].pc = "rnIsoDel"
    /\ ~RunsAfterQueued(nodeOps[p].behind)
    /\ nodes' = [nodes EXCEPT ![c] = MapDelete(@, id)]
    /\ ev' = DispRunAhead(EvDetach(c, {id}), p)
    /\ tick' = TicksRunAhead(TickAfterDelete(c, id), p)
    /\ nodeOps' = NodeOpsRunAhead([nodeOps EXCEPT ![p] = IdleNodeOp], p)
    /\ obs' = Obs("removeNode", "resume", id, "ok", <<CoEvent("node-removed", id)>>)
    /\ UNCHANGED <<mgrVars, nCoord, isolates, leaked, roundRobinIndex,
                   healthCheckTimer, dep, scl, shut>>

\* =========================================================== specifications
Configs(counts, failovers, strategies) ==
    {[nodes |-> generateNodeConfigs(n, BasePort), failover |-> f, strategy |-> s]
       : n \in counts, f \in failovers, s \in strategies}

\* the state after `new LimboDeploymentManager(config)`
Constructed(config) ==
    /\ status = "stopped"
    /\ coordinator = 0
    /\ requestCounter = 0
    /\ cfg = config
    /\ nCoord = 0
    /\ nodes = [c \in Coords |-> <<>>]
    /\ isolates = [c \in Coords |-> [id \in NodeIds |-> "none"]]
    /\ leaked = [c \in Coords |-> {}]
    /\ roundRobinIndex = [c \in Coords |-> 0]
    /\ healthCheckTimer = [c \in Coords |-> FALSE]
    /\ dep = IdleDep
    /\ scl = IdleScl
    /\ shut = [s \in Shuts |-> IdleShut]
    /\ ev = [d \in Disp |-> IdleEv]
    /\ tick = [t \in Ticks |-> IdleTick]
    /\ nodeOps = [p \in NodeOps |-> IdleNodeOp]
    /\ obs = Obs("new", "call", 0, "ok", <<>>)

\* the state after deploy() has run to its end on a fresh manager
Deployed(config) ==
    /\ status = "running"
    /\ coordinator = 1
    /\ requestCounter = 0
    /\ cfg = config
    /\ nCoord = 1
    /\ nodes = [c \in Coords |->
                  IF c = 1
                  THEN [k \in 1..Len(config.nodes) |->
                          NetworkNode(config.nodes[k].id, config.nodes[k].port)]
                  ELSE <<>>]
    /\ isolates = [c \in Coords |->
                     [id \in NodeIds |->
                        IF c = 1 /\ \E k \in 1..Len(config.nodes) : config.nodes[k].id = id
                        THEN "running" ELSE "none"]]
    /\ leaked = [c \in Coords |-> {}]
    /\ roundRobinIndex = [c \in Coords |-> 0]
    /\ healthCheckTimer = [c \in Coords |-> c = 1]
    /\ dep = IdleDep
    /\ scl = IdleScl
    /\ shut = [s \in Shuts |-> IdleShut]
    /\ ev = [d \in Disp |-> IdleEv]
    /\ tick = [t \in Ticks |-> IdleTick]
    /\ nodeOps = [p \in NodeOps |-> IdleNodeOp]
    /\ obs = Obs("deploy", "resume", 0, "ok",
                 <<MgrEvent("status-change", "running"), MgrEvent("deployed", 0)>>)

ShutdownSteps ==
    \E s \in Shuts :
       ShutdownIsolatesCleared(s) \/ ShutdownNodesCleared(s) \/ ShutdownResume(s)

EvaluateSteps ==
    \/ \E d \in Disp : Evaluate(d)
    \/ \E d \in Disp : EvaluateResume(d)

\* the health check with one tick in progress at a time: the interval is
\* longer than a tick takes
OneTick == {1}

HealthCheckSteps ==
    \/ \E t \in OneTick, c \in Coords : HealthCheckTick(t, c)
    \/ \E t \in OneTick : HealthCheckResume(t)

\* The life cycle of one manager: every call of the public interface in
\* every status, with the default configuration of two generated nodes, one
\* evaluate() in flight at a time, and scale() to the configured size or
\* one node below it.
LifeTargets == {1, 2}
LifeDisp == {1}

Init == \E config \in Configs({2}, {TRUE}, {"round-robin"}) : Constructed(config)

Next ==
    \/ DeployCall
    \/ DeployLoop
    \/ DeployIsolateStarted
    \/ DeployNodeRegistered
    \/ Pause
    \/ Resume
    \/ \E s \in Shuts : ShutdownCall(s)
    \/ ShutdownSteps
    \/ \E d \in LifeDisp : Evaluate(d)
    \/ \E d \in LifeDisp : EvaluateResume(d)
    \/ HealthCheckSteps
    \/ \E target \in LifeTargets : ScaleCall(target)
    \/ ScaleLoop
    \/ ScaleIsolateStopped
    \/ ScaleNodeRemoved
    \/ ScaleThrow

Spec == Init /\ [][Next]_vars

\* A running deployment under request traffic: concurrent evaluate() calls
\* and the health-check timer, with and without failover.
InitRun ==
    \E config \in Configs({1, 2}, BOOLEAN, {"round-robin", "least-connections"}) :
        Deployed(config)

NextRun ==
    \/ EvaluateSteps
    \/ HealthCheckSteps

SpecRun == InitRun /\ [][NextRun]_vars

\* Node selection on every registry snapshot: a running deployment of one to
\* three nodes caught with any health flags, any cursor and any sends in
\* flight, under each of the four strategies; evaluate() then selects.
InFlightSends(ids) ==
    {[id |-> NoId, out |-> "none"]}
    \cup {[id |-> x, out |-> o] : x \in ids, o \in {"ok", "fail"}}

UnderTraffic(config, hs, sends, rr) ==
    /\ status = "running"
    /\ coordinator = 1
    /\ requestCounter = Cardinality({d \in Disp : sends[d].id # NoId})
    /\ cfg = config
    /\ nCoord = 1
    /\ nodes = [c \in Coords |->
                  IF c = 1
                  THEN [k \in 1..Len(config.nodes) |->
                          [NetworkNode(config.nodes[k].id, config.nodes[k].port)
                             EXCEPT !.isHealthy = hs[config.nodes[k].id],
                                    !.connections = Cardinality(
                                        {d \in Disp : sends[d].id = config.nodes[k].id})]]
                  ELSE <<>>]
    /\ isolates = [c \in Coords |->
                     [id \in NodeIds |->
                        IF c = 1 /\ \E k \in 1..Len(config.nodes) : config.nodes[k].id = id
                        THEN "running" ELSE "none"]]
    /\ leaked = [c \in Coords |-> {}]
    /\ roundRobinIndex = [c \in Coords |-> IF c = 1 THEN rr ELSE 0]
    /\ healthCheckTimer = [c \in Coords |-> c = 1]
    /\ dep = IdleDep
    /\ scl = IdleScl
    /\ shut = [s \in Shuts |-> IdleShut]
    /\ ev = [d \in Disp |->
               IF sends[d].id = NoId
               THEN IdleEv
               ELSE [pc |-> "sending", c |-> 1, req |-> d, id |-> sends[d].id,
                     det |-> FALSE, out |-> sends[d].out, attempts |-> 1,
                     behind |-> {}]]
    /\ tick = [t \in Ticks |-> IdleTick]
    /\ nodeOps = [p \in NodeOps |-> IdleNodeOp]
    /\ obs = Obs("deploy", "resume", 0, "ok",
                 <<MgrEvent("status-change", "running"), MgrEvent("deployed", 0)>>)

InitSelect ==
    \E config \in Configs({1, 2, 3}, BOOLEAN, Strategies) :
      \E hs \in [NodeIds -> BOOLEAN], rr \in 0..MaxRR :
        \E sends \in [Disp -> InFlightSends({config.nodes[k].id
                                              : k \in 1..Len(config.nodes)})] :
          UnderTraffic(config, hs, sends, rr)

NextSelect ==
    \/ \E d \in Disp : Evaluate(d)
    \/ \E d \in Disp : EvaluateResume(d)

SpecSelect == InitSelect /\ [][NextSelect]_vars

\* Scaling of a running deployment: scale() calls one after another, with
\* every target, on generated configurations whose node ports start at the
\* network's basePort or one above it, and a shutdown() that may fall
\* between the steps of a batch.
ScaleTargets == 0..MaxTarget
NodePortBases == {BasePort, BasePort + 1}

InitScale ==
    \E n \in 1..MaxTarget, b \in NodePortBases :
        Deployed([nodes |-> generateNodeConfigs(n, b), failover |-> TRUE,
                  strategy |-> "round-robin"])

NextScale ==
    \/ \E target \in ScaleTargets : ScaleCall(target)
    \/ ScaleLoop
    \/ ScaleIsolateStarted
    \/ ScaleNodeRegistered
    \/ ScaleIsolateStopped
    \/ ScaleNodeRemoved
    \/ ScaleThrow
    \/ \E s \in Shuts : ShutdownCall(s)
    \/ ShutdownSteps

SpecScale == InitScale /\ [][NextScale]_vars

\* ---- nodes deployed and removed on the coordinator of a running deployment
\* the port of the isolate config handed to deployNode
NodePorts(id) == {BasePort + id}

InitNodes ==
    \E config \in Configs({1, 2}, {TRUE}, {"round-robin"}) : Deployed(config)

NextNodes ==
    \/ \E p \in NodeOps, id \in NodeIds : \E port \in NodePorts(id) :
          DeployNodeCall(p, id, port)
    \/ \E p \in NodeOps : DeployNodeIsolateStarted(p)
    \/ \E p \in NodeOps : DeployNodeResume(p)
    \/ \E p \in NodeOps, id \in NodeIds : RemoveNodeCall(p, id)
    \/ \E p \in NodeOps : RemoveNodeIsolateStopped(p)
    \/ \E p \in NodeOps : RemoveNodeResume(p)

SpecNodes == InitNodes /\ [][NextNodes]_vars

\* ---- deploy() of a configuration whose nodes are written out with
\* weights, weighted-random balancing, and requests once it runs
ConfigWeights == {NoWeight, 1, 3}

WeightedNodeConfigs(count, w) ==
    [k \in 1..count |-> [id |-> k - 1, port |-> BasePort + (k - 1), weight |-> w[k]]]

InitWeights ==
    \E n \in {1, 2} : \E w \in [1..n -> ConfigWeights] :
        Constructed([nodes |-> WeightedNodeConfigs(n, w), failover |-> TRUE,
                     strategy |-> "weighted-random"])

NextWeights ==
    \/ DeployCall
    \/ DeployLoop
    \/ DeployIsolateStarted
    \/ DeployNodeRegistered
    \/ \E d \in LifeDisp : Evaluate(d)
    \/ \E d \in LifeDisp : EvaluateResume(d)

SpecWeights == InitWeights /\ [][NextWeights]_vars

\* ---- the constructor on every configuration argument of up to two nodes;
\* a manager it accepts is then deployed
RawPorts == {-1, 0, 1, BasePort, 65535, 65536}

RawNodes ==
    [id : {NoId, 0, 1}, address : {"", "localhost"}, port : RawPorts]

RawNodeLists ==
    {<<>>} \cup {<<a>> : a \in RawNodes} \cup {<<a, b>> : a, b \in RawNodes}

RawConfigs ==
    {[name |-> n, modulePath |-> mo, modelPath |-> mp, hasNodes |-> TRUE, nodes |-> l]
       : n \in {"absent", "", "limbo"}, mo \in {"", "llama.dis"},
         mp \in {"", "model.gguf"}, l \in RawNodeLists}
    \cup
    {[name |-> n, modulePath |-> mo, modelPath |-> mp, hasNodes |-> FALSE, nodes |-> <<>>]
       : n \in {"absent", "", "limbo"}, mo \in {"", "llama.dis"},
         mp \in {"", "model.gguf"}}

\* no manager yet: the argument of the constructor call to come
Unconstructed(config) ==
    /\ status = "none"
    /\ coordinator = 0
    /\ requestCounter = 0
    /\ cfg = config
    /\ nCoord = 0
    /\ nodes = [c \in Coords |-> <<>>]
    /\ isolates = [c \in Coords |-> [id \in NodeIds |-> "none"]]
    /\ leaked = [c \in Coords |-> {}]
    /\ roundRobinIndex = [c \in Coords |-> 0]
    /\ healthCheckTimer = [c \in Coords |-> FALSE]
    /\ dep = IdleDep
    /\ scl = IdleScl
    /\ shut = [s \in Shuts |-> IdleShut]
    /\ ev = [d \in Disp |-> IdleEv]
    /\ tick = [t \in Ticks |-> IdleTick]
    /\ nodeOps = [p \in NodeOps |-> IdleNodeOp]
    /\ obs = Obs("none", "call", 0, "ok", <<>>)

InitConstruct == \E config \in RawConfigs : Unconstructed(config)

NextConstruct ==
    \/ Construct
    \/ (status # "none" /\ DeployCall)
    \/ DeployLoop
    \/ DeployIsolateStarted
    \/ DeployNodeRegistered

SpecConstruct == InitConstruct /\ [][NextConstruct]_vars

\* ---- a running deployment whose nodes are removed and deployed again on
\* the coordinator while requests are dispatched and the health-check timer
\* fires: one evaluate(), one tick and one deployNode / removeNode at a time,
\* for the ids of the two configured nodes
ChurnDisp == {1}
ChurnOps == {1}
ChurnIds == {0, 1}

InitChurn ==
    \E config \in Configs({2}, BOOLEAN, {"round-robin"}) : Deployed(config)

NextChurn ==
    \/ \E d \in ChurnDisp : Evaluate(d)
    \/ \E d \in ChurnDisp : EvaluateResume(d)
    \/ HealthCheckSteps
    \/ \E p \in ChurnOps, id \in ChurnIds : \E port \in NodePorts(id) :
          DeployNodeCall(p, id, port)
    \/ \E p \in ChurnOps : DeployNodeIsolateStarted(p)
    \/ \E p \in ChurnOps : DeployNodeResume(p)
    \/ \E p \in ChurnOps, id \in ChurnIds : RemoveNodeCall(p, id)
    \/ \E p \in ChurnOps : RemoveNodeIsolateStopped(p)
    \/ \E p \in ChurnOps : RemoveNodeResume(p)

SpecChurn == InitChurn /\ [][NextChurn]_vars

\* ---- a dispatch that retries while the health check runs: one evaluate()
\* on one or two nodes under failover, with strategies that leave the cursor
\* alone, so that a chain of retries of any length is a path of the graph.
\* Every send and every probe that was issued is settled in the end.
FlapDisp == {1}

InitFlap ==
    \E config \in Configs({1, 2}, {TRUE}, {"least-connections", "random"}) :
        Deployed(config)

NextFlap ==
    \/ \E d \in FlapDisp : Evaluate(d)
    \/ \E d \in FlapDisp : EvaluateRetry(d)
    \/ HealthCheckSteps

FairFlap ==
    /\ \A d \in FlapDisp : WF_vars(EvaluateRetry(d))
    /\ \A t \in OneTick : WF_vars(HealthCheckResume(t))

SpecFlap == InitFlap /\ [][NextFlap]_vars /\ FairFlap

\* ---- the interval timer of a running deployment: it fires whether or not
\* the tick before has come to its end, while requests are dispatched
InitTicks ==
    \E config \in Configs({1, 2}, {TRUE}, {"least-connections"}) : Deployed(config)

NextTicks ==
    \/ \E t \in Ticks, c \in Coords : HealthCheckTick(t, c)
    \/ \E t \in Ticks : HealthCheckResume(t)
    \/ \E d \in LifeDisp : Evaluate(d)
    \/ \E d \in LifeDisp : EvaluateResume(d)

SpecTicks == InitTicks /\ [][NextTicks]_vars

\* =================================================================== claims
NodeOf(nds, id) == nds[IndexOf(nds, id)]

\* dispatch calls suspended at the send to the registered node `id`
InFlight(c, id) ==
    Cardinality({d \in Disp : /\ ev[d].pc = "sending"
                              /\ ev[d].c = c
                              /\ ev[d].id = id
                              /\ ~ev[d].det})

\* the dispatch of slot d resumes in this step after its send was rejected
SendFailed(d) ==
    /\ ev[d].pc = "sending"
    /\ ev[d].out = "fail"
    /\ obs'.op = "evaluate"
    /\ obs'.phase = "resume"
    /\ ev'[d] # ev[d]

\* the transitions of the deployment status that the specification allows
AllowedTransitions ==
    {<<"stopped", "initializing">>, <<"initializing", "running">>,
     <<"running", "paused">>, <<"paused", "running">>}
    \cup {<<s, "error">> : s \in {"stopped", "initializing", "running", "paused"}}
    \cup {<<s, "stopped">> : s \in {"running", "paused", "error"}}

\* C1: every change of the deployment status is one of the allowed
\* transitions, also when a call is made while another is suspended at an await
C1_AllowedTransitions ==
    [][status' # status => <<status, status'>> \in AllowedTransitions]_vars

\* C2: evaluate() called when the status is not Running fails with the
\* invalid-state error and has no effect: no node is selected, no send is
\* issued, and requestCounter, the round-robin cursor and every node's
\* connections and isHealthy stay as they were
C2_EvaluateRejected ==
    [][(obs'.op = "evaluate" /\ obs'.phase = "call" /\ status # "running")
        => /\ obs'.res = "InvalidState"
           /\ obs'.node = NoId
           /\ obs'.sends = 0
           /\ UNCHANGED <<mgrVars, coVars, procVars>>]_vars

C2_Witness ==
    /\ obs.op = "evaluate"
    /\ obs.phase = "call"
    /\ obs.res = "InvalidState"
    /\ status = "paused"
    /\ coordinator # 0
    /\ Len(HealthyNodes(nodes[coordinator])) > 0

\* C3: deploy() called when the status is not Stopped, pause() when it is not
\* Running, resume() when it is not Paused and scale() when it is not Running
\* fail with the invalid-state error, leave the status, the registry and the
\* isolates unchanged, and emit no notification
C3_CallGuards ==
    [][(/\ obs'.phase = "call"
        /\ \/ obs'.op = "deploy" /\ status # "stopped"
           \/ obs'.op = "pause" /\ status # "running"
           \/ obs'.op = "resume" /\ status # "paused"
           \/ obs'.op = "scale" /\ status # "running")
        => /\ obs'.res = "InvalidState"
           /\ obs'.emitted = <<>>
           /\ UNCHANGED <<mgrVars, coVars, procVars>>]_vars

C3_Witness ==
    /\ obs.op = "scale"
    /\ obs.phase = "call"
    /\ obs.res = "InvalidState"
    /\ status = "paused"
    /\ coordinator # 0
    /\ RunningIds(coordinator) # {}

\* C4: shutdown() called when the status is Stopped returns without error,
\* changes nothing and emits no notification, so that a second shutdown()
\* after a first one leaves the status Stopped
C4_ShutdownIdempotent ==
    [][(obs'.op = "shutdown" /\ obs'.phase = "call" /\ status = "stopped")
        => /\ obs'.res = "ok"
           /\ obs'.emitted = <<>>
           /\ status' = "stopped"
           /\ UNCHANGED <<mgrVars, coVars, procVars>>]_vars

C4_Witness ==
    /\ obs.op = "shutdown"
    /\ obs.phase = "call"
    /\ obs.res = "ok"
    /\ obs.emitted = <<>>
    /\ status = "stopped"
    /\ nCoord = 1
    /\ coordinator = 0

ShutdownFrom == {"running", "paused", "error"}

\* the steps (a) to (c) of a shutdown are complete on coordinator c: the
\* timer is cancelled, no isolate of the map is running, the registry is empty
ShutdownStepsComplete(c) ==
    /\ ~healthCheckTimer[c]
    /\ RunningIds(c) = {}
    /\ nodes[c] = <<>>

\* C5: a shutdown() called in Running, Paused or Error runs its steps in
\* order: the call cancels the timer and stops every isolate, leaving
\* registry and status alone; when the stops are awaited the isolate map is
\* emptied; only then is the registry cleared; only then does the status
\* become Stopped, so that the step that sets Stopped finds the timer of
\* every coordinator of the deployment cancelled, none of its isolates
\* running and its registry empty
C5_ShutdownOrder ==
    [][/\ \A s \in Shuts :
            (/\ obs'.op = "shutdown" /\ obs'.phase = "resume"
             /\ shut'[s] # shut[s]
             /\ shut[s].from \in ShutdownFrom)
            => /\ ~healthCheckTimer[shut[s].c]
               /\ RunningIds(shut[s].c) = {}
               /\ shut[s].pc = "stopAll"
                    => /\ nodes' = nodes
                       /\ status' = status
                       /\ \A id \in NodeIds : isolates'[shut[s].c][id] = "none"
               /\ shut[s].pc = "coordShutdown"
                    => /\ \A id \in NodeIds : isolates[shut[s].c][id] = "none"
                       /\ nodes'[shut[s].c] = <<>>
                       /\ status' = status
               /\ shut[s].pc = "mgrShutdown"
                    => /\ \A c \in 1..nCoord : ShutdownStepsComplete(c)
                       /\ status' = "stopped"
       /\ (/\ obs'.op = "shutdown" /\ obs'.phase = "call"
           /\ status \in ShutdownFrom)
          => IF status' = "stopped"
             THEN \A c \in 1..nCoord : ShutdownStepsComplete(c)
             ELSE /\ ~healthCheckTimer'[coordinator]
                  /\ RunningIds(coordinator)' = {}
                  /\ Len(nodes'[coordinator]) = Len(nodes[coordinator])
                  /\ status' = status
       /\ (status' = "stopped" /\ status # "stopped")
          => obs'.op = "shutdown"]_vars

\* C6: the connections counter of every registered node equals the number of
\* dispatch calls suspended at a send to that node; it is decremented after a
\* rejected send as after a resolved one
C6_Connections ==
    \A c \in Coords : \A j \in 1..Len(nodes[c]) :
        nodes[c][j].connections = InFlight(c, nodes[c][j].id)

C6_Witness ==
    /\ obs.op = "evaluate"
    /\ obs.phase = "resume"
    /\ obs.res = "SendError"
    /\ \E d \in Disp : /\ ev[d].pc = "sending"
                       /\ NodeOf(nodes[ev[d].c], ev[d].id).connections = 1
    /\ \E j \in 1..Len(nodes[1]) : nodes[1][j].connections = 0

\* C7: with failover enabled, a rejected send makes the dispatcher mark the
\* node unhealthy, emit node-unhealthy for it, and go on with the same request
C7_FailoverNotifies ==
    [][\A d \in Disp :
         (cfg.failover /\ SendFailed(d))
         => /\ ~NodeOf(nodes'[ev[d].c], ev[d].id).isHealthy
            /\ obs'.req = ev[d].req
            /\ \E k \in 1..Len(obs'.emitted) :
                  obs'.emitted[k] = CoEvent("node-unhealthy", ev[d].id)]_vars

\* C8: with failover enabled, one dispatch makes at most as many send
\* attempts as there are registered nodes
C8_AttemptsBound ==
    \A d \in Disp :
        (cfg.failover /\ ev[d].pc = "sending")
        => ev[d].attempts <= Len(nodes[ev[d].c])

\* C9: with failover enabled, when the first send of a dispatch is rejected
\* and no other node is healthy, the dispatch ends with the no-healthy-nodes
\* error after that one send, and leaves the node unhealthy with no
\* connection of this dispatch
C9_LastHealthyFails ==
    [][\A d \in Disp :
         (/\ cfg.failover /\ SendFailed(d)
          /\ ev[d].attempts = 1
          /\ \A j \in 1..Len(nodes[ev[d].c]) :
                nodes[ev[d].c][j].isHealthy => nodes[ev[d].c][j].id = ev[d].id)
         => /\ obs'.res = "NoHealthyNodes"
            /\ obs'.sends = 1
            /\ ev'[d].pc = "idle"
            /\ ~NodeOf(nodes'[ev[d].c], ev[d].id).isHealthy
            /\ NodeOf(nodes'[ev[d].c], ev[d].id).connections
                 = InFlight(ev[d].c, ev[d].id) - 1]_vars

C9_Witness ==
    /\ cfg.failover
    /\ obs.op = "evaluate"
    /\ obs.phase = "resume"
    /\ obs.res = "NoHealthyNodes"
    /\ obs.sends = 1
    /\ \A j \in 1..Len(nodes[1]) :
          ~nodes[1][j].isHealthy /\ nodes[1][j].connections = 0

\* C10: with failover disabled, a rejected send ends the dispatch after that
\* one attempt with the error of the send, leaves the node's isHealthy as it
\* was and takes the connection of this dispatch off the node
C10_NoFailover ==
    [][\A d \in Disp :
         (~cfg.failover /\ SendFailed(d))
         => /\ obs'.res = "SendError"
            /\ ev[d].attempts = 1
            /\ obs'.sends = 1
            /\ ev'[d].pc = "idle"
            /\ NodeOf(nodes'[ev[d].c], ev[d].id).isHealthy
                 = NodeOf(nodes[ev[d].c], ev[d].id).isHealthy
            /\ NodeOf(nodes'[ev[d].c], ev[d].id).connections
                 = NodeOf(nodes[ev[d].c], ev[d].id).connections - 1
            /\ NodeOf(nodes'[ev[d].c], ev[d].id).connections
                 = InFlight(ev[d].c, ev[d].id) - 1
            /\ roundRobinIndex' = roundRobinIndex]_vars

C10_Witness ==
    /\ ~cfg.failover
    /\ obs.op = "evaluate"
    /\ obs.phase = "resume"
    /\ obs.res = "SendError"
    /\ obs.sends = 1
    /\ \A j \in 1..Len(nodes[1]) :
          nodes[1][j].isHealthy /\ nodes[1][j].connections = 0

\* C11: node selection returns one node, and that node is registered and
\* healthy, under every strategy: selectNode offers only such nodes and offers
\* none exactly when no registered node is healthy; every send that
\* evaluate() issues goes to a node that was registered and healthy, and when
\* no node is healthy dispatch fails with the no-healthy-nodes error, issues
\* no send and changes no connections counter
C11_SelectHealthy ==
    [][/\ \A c \in 1..nCoord :
            /\ \A s \in selectNode(nodes[c], roundRobinIndex[c]) :
                  \E j \in 1..Len(nodes[c]) :
                      nodes[c][j].id = s.id /\ nodes[c][j].isHealthy
            /\ (selectNode(nodes[c], roundRobinIndex[c]) = {})
                 <=> (\A j \in 1..Len(nodes[c]) : ~nodes[c][j].isHealthy)
       /\ (obs'.op = "evaluate" /\ obs'.phase = "call" /\ obs'.res = "pending")
          => \E j \in 1..Len(nodes[coordinator]) :
                /\ nodes[coordinator][j].id = obs'.node
                /\ nodes[coordinator][j].isHealthy
       /\ (/\ obs'.op = "evaluate" /\ obs'.phase = "call"
           /\ status = "running" /\ coordinator # 0
           /\ \A j \in 1..Len(nodes[coordinator]) : ~nodes[coordinator][j].isHealthy)
          => /\ obs'.res = "NoHealthyNodes"
             /\ obs'.sends = 0
             /\ nodes' = nodes
             /\ ev' = ev]_vars

C11_Witness ==
    /\ cfg.strategy = "weighted-random"
    /\ obs.op = "evaluate"
    /\ obs.phase = "call"
    /\ obs.res = "pending"
    /\ obs.node = 2
    /\ ~nodes[1][1].isHealthy

RECURSIVE RoundRobinPicks(_, _, _)
\* the ids of k consecutive round-robin selections from cursor rr
RoundRobinPicks(h, rr, k) ==
    IF k = 0
    THEN <<>>
    ELSE <<selectRoundRobin(h, rr).id>>
         \o RoundRobinPicks(h, selectRoundRobin(h, rr).rr, k - 1)

\* C12: round-robin over an unchanging set of N healthy nodes returns every
\* node exactly once in any N consecutive selections, from any cursor value
C12_RoundRobinCycle ==
    \A c \in 1..nCoord :
        LET h == HealthyNodes(nodes[c])
            picks == RoundRobinPicks(h, roundRobinIndex[c], Len(h))
        IN /\ Len(picks) = Len(h)
           /\ \A k \in 1..Len(h) : \E m \in 1..Len(picks) : picks[m] = h[k].id
           /\ \A m, n \in 1..Len(picks) : picks[m] = picks[n] => m = n

C12_Witness ==
    /\ cfg.strategy = "round-robin"
    /\ Len(HealthyNodes(nodes[1])) = 3
    /\ roundRobinIndex[1] = 2
    /\ obs.op = "evaluate"
    /\ obs.phase = "call"
    /\ obs.node = 1

\* the place in h of the first node with the fewest connections
MinFirst(h) ==
    CHOOSE k \in 1..Len(h) :
        /\ \A j \in 1..Len(h) : h[k].connections <= h[j].connections
        /\ \A j \in 1..(k - 1) : h[j].connections > h[k].connections

\* C13: least-connections selects a healthy node with no more connections
\* than any other healthy node, the earliest in registry order among those
\* with the fewest; evaluate() sends to that node
C13_LeastConnections ==
    [][/\ \A c \in 1..nCoord :
            Len(HealthyNodes(nodes[c])) > 0
            => selectLeastConnections(HealthyNodes(nodes[c]))
                 = HealthyNodes(nodes[c])[MinFirst(HealthyNodes(nodes[c]))]
       /\ (/\ cfg.strategy = "least-connections"
           /\ obs'.op = "evaluate" /\ obs'.phase = "call" /\ obs'.res = "pending")
          => obs'.node = HealthyNodes(nodes[coordinator])
                            [MinFirst(HealthyNodes(nodes[coordinator]))].id]_vars

C13_Witness ==
    /\ cfg.strategy = "least-connections"
    /\ obs.op = "evaluate"
    /\ obs.phase = "call"
    /\ obs.node = 1
    /\ Len(nodes[1]) = 3
    /\ nodes[1][1].isHealthy /\ nodes[1][1].connections = 1
    /\ nodes[1][2].connections = 1
    /\ nodes[1][3].isHealthy /\ nodes[1][3].connections = 0

\* no shutdown() has been called on the deployment
NoShutdown == NoShutdownSuspended /\ coordinator # 0

\* C14: when scale(target), called with no other scale() in progress, returns
\* successfully the registry holds target nodes, after every sequence of
\* successful scale calls
C14_ScaleReachesTarget ==
    [][(/\ obs'.op = "scale" /\ obs'.res = "ok" /\ NoShutdown
        /\ obs'.phase = "call" => scl.pc = "idle")
        => Len(nodes'[coordinator]) = obs'.arg]_vars

\* C15: scale(target), called with no other scale() in progress, returns at
\* once without adding or removing a node exactly when target is the number
\* of registered nodes
C15_ScaleNoOp ==
    [][(/\ obs'.op = "scale" /\ obs'.phase = "call"
        /\ status = "running" /\ NoShutdown /\ scl.pc = "idle")
        => ((obs'.res = "ok" /\ scl' = scl /\ nodes' = nodes /\ isolates' = isolates)
            <=> obs'.arg = Len(nodes[coordinator]))]_vars

\* C16: a node registered by a scale-up has an id and a port that no
\* registered node has
C16_FreshIdAndPort ==
    [][(scl.pc = "dnIsoSet" /\ scl'.pc = "dnDone")
        => \A j \in 1..Len(nodes[scl.c]) :
              /\ nodes[scl.c][j].id # scl.id
              /\ nodes[scl.c][j].port # NetworkNode(scl.id, scl.port).port]_vars

\* C17: every node that a scale-down removes is the most recently added
\* node of the registry at that moment
C17_RemovesNewest ==
    [][(/\ scl.pc = "rnIsoDel" /\ scl'.pc = "rnDone"
        /\ NoShutdown /\ Len(nodes[scl.c]) > 0)
        => scl.id = nodes[scl.c][Len(nodes[scl.c])].id]_vars

ScaleErrors == {"IsolateExists", "NodeNotFound", "IsolateNotFound", "TypeError"}

\* C18: when a step of a scale batch fails, scale() rejects with the error
\* of that step, runs no further step of the batch, leaves the registry and
\* the isolates as the completed steps left them, and emits no notification
C18_ScaleAborts ==
    [][(obs'.op = "scale" /\ obs'.res \in ScaleErrors)
        => /\ scl' = IdleScl
           /\ obs'.emitted = <<>>
           /\ nodes' = nodes
           /\ isolates' = isolates
           /\ scl.pc \in {"dnThrow", "rnThrow"} => obs'.res = scl.err]_vars

C18_Witness ==
    /\ obs.op = "scale"
    /\ obs.phase = "resume"
    /\ obs.arg = 0
    /\ obs.res = "IsolateNotFound"
    /\ scl = IdleScl
    /\ Len(cfg.nodes) = 3
    /\ Len(nodes[1]) = 2

\* ----------------------------------------------------------------- C19, C20
DeployNodeInProgress(id) ==
    \E q \in NodeOps : nodeOps[q].pc \in {"dnStarted", "dnIsoSet"} /\ nodeOps[q].id = id

RemoveNodeInProgress(id) ==
    \E q \in NodeOps : nodeOps[q].pc \in {"rnStopped", "rnIsoDel"} /\ nodeOps[q].id = id

\* C19: a deployNode call for an id that is registered fails with the
\* duplicate error and leaves the registry and the isolates as they are,
\* and of deployNode calls that run concurrently for one id at most one
\* succeeds: a call that succeeds registers an id that was not registered.
\* Only deployNode calls run concurrently here: no removeNode for the id is
\* in progress.
C19_DuplicateRejected ==
    [][(obs'.op = "deployNode" /\ ~RemoveNodeInProgress(obs'.arg))
        => /\ (obs'.phase = "call" /\ Has(nodes[1], obs'.arg))
                => /\ obs'.res = "IsolateExists"
                   /\ nodes' = nodes /\ isolates' = isolates /\ leaked' = leaked
           /\ obs'.res = "ok" => ~Has(nodes[1], obs'.arg)]_vars

\* C20: a removeNode call for an id that is not registered fails with the
\* not-found error, stops no isolate, emits nothing and leaves the registry,
\* the isolates and every suspended call as they are.
C20_RemoveUnregistered ==
    [][(obs'.op = "removeNode" /\ obs'.phase = "call" /\ ~Has(nodes[1], obs'.arg))
        => /\ obs'.res = "NodeNotFound"
           /\ obs'.emitted = <<>>
           /\ nodes' = nodes /\ isolates' = isolates /\ leaked' = leaked
           /\ nodeOps' = nodeOps]_vars

\* removeNode was refused for an unregistered id whose isolate is running
\* (a deployNode for it is suspended before it registers the node)
C20_Witness ==
    /\ obs.op = "removeNode"
    /\ obs.res = "NodeNotFound"
    /\ ~Has(nodes[1], obs.arg)
    /\ isolates[1][obs.arg] = "running"
    /\ DeployNodeInProgress(obs.arg)

\* ---------------------------------------------------------------------- C21
\* C21: in every reachable state the registry holds at most one node per id
\* and the connections counter of every registered node is at least 0
C21_RegistryInvariant ==
    \A c \in Coords :
        /\ \A j, k \in 1..Len(nodes[c]) : nodes[c][j].id = nodes[c][k].id => j = k
        /\ \A j \in 1..Len(nodes[c]) : nodes[c][j].connections >= 0

\* a dispatch is suspended at a send to a node that was removed and deployed
\* again under the same id in the meantime: the registered node counts no
\* connection, and the decrement to come reaches the object the dispatch holds
C21_Witness ==
    \E d \in Disp :
        /\ ev[d].pc = "sending"
        /\ ev[d].det
        /\ Has(nodes[ev[d].c], ev[d].id)
        /\ NodeOf(nodes[ev[d].c], ev[d].id).connections = 0
        /\ nodeOps[1].pc = "idle"

\* ---------------------------------------------------------------------- C22
\* C22: while a removeNode(id) call is in progress no dispatch, first attempt
\* or retry, issues a send to the node with that id
C22_RemovedNotSelected ==
    [][(/\ obs'.op = "evaluate"
        /\ obs'.res = "pending"
        /\ obs'.node # NoId)
        => ~RemoveNodeInProgress(obs'.node)]_vars

\* ---------------------------------------------------------------------- C23
\* the probe of tick t settles in this step
ProbeSettles(t) ==
    /\ tick[t].pc = "probing"
    /\ obs'.op = "healthCheck"
    /\ tick'[t] # tick[t]

NotifiesUnhealthy(id) ==
    \E k \in 1..Len(obs'.emitted) : obs'.emitted[k] = CoEvent("node-unhealthy", id)

\* C23: a probe that succeeds leaves the probed node healthy, a probe that
\* fails leaves it unhealthy and raises node-unhealthy with its id, and every
\* node that a step of the health check takes from healthy to unhealthy is
\* named by a node-unhealthy notification of that step
C23_ProbeOutcome ==
    [][/\ \A t \in Ticks :
            (ProbeSettles(t) /\ ~tick[t].det /\ Has(nodes[tick[t].c], tick[t].id))
            => LET after == NodeOf(nodes'[tick[t].c], tick[t].id) IN
               IF tick[t].out = "ok"
               THEN after.isHealthy
               ELSE ~after.isHealthy /\ NotifiesUnhealthy(tick[t].id)
       /\ obs'.op = "healthCheck"
            => \A c \in Coords : \A j \in 1..Len(nodes[c]) :
                  (/\ nodes[c][j].isHealthy
                   /\ Has(nodes'[c], nodes[c][j].id)
                   /\ ~NodeOf(nodes'[c], nodes[c][j].id).isHealthy)
                  => NotifiesUnhealthy(nodes[c][j].id)]_vars

\* ---------------------------------------------------------------------- C24
\* C24: every node-unhealthy notification raised on the coordinator reaches
\* the listeners of the manager: the step that emits it on the coordinator
\* emits node-unhealthy with the same node id on the manager
C24_UnhealthyForwarded ==
    [][\A k \in 1..Len(obs'.emitted) :
          (obs' # obs /\ obs'.emitted[k][1] = "coordinator"
                      /\ obs'.emitted[k][2] = "node-unhealthy")
          => \E m \in 1..Len(obs'.emitted) :
                obs'.emitted[m] = MgrEvent("node-unhealthy", obs'.emitted[k][3])]_vars

\* ---------------------------------------------------------------------- C25
\* the node is in the snapshot of healthy nodes that selectNode chooses from
Eligible(nds, id) ==
    \E k \in 1..Len(HealthyNodes(nds)) : HealthyNodes(nds)[k].id = id

\* C25: when the probe of a registered node that is marked unhealthy
\* succeeds, the node is healthy afterwards and is among the nodes that
\* dispatch selects from
C25_Recovery ==
    [][\A t \in Ticks :
          (/\ ProbeSettles(t)
           /\ tick[t].out = "ok"
           /\ ~tick[t].det
           /\ Has(nodes[tick[t].c], tick[t].id)
           /\ ~NodeOf(nodes[tick[t].c], tick[t].id).isHealthy)
          => /\ Has(nodes'[tick[t].c], tick[t].id)
             /\ NodeOf(nodes'[tick[t].c], tick[t].id).isHealthy
             /\ Eligible(nodes'[tick[t].c], tick[t].id)]_vars

\* failover has marked a node unhealthy after a rejected send, the node is
\* still registered with its isolate running, and a ping to it that will
\* succeed is in flight
C25_Witness ==
    \E t \in Ticks :
        /\ tick[t].pc = "probing"
        /\ tick[t].out = "ok"
        /\ ~tick[t].det
        /\ Has(nodes[tick[t].c], tick[t].id)
        /\ ~NodeOf(nodes[tick[t].c], tick[t].id).isHealthy
        /\ isolates[tick[t].c][tick[t].id] = "running"
        /\ obs.op = "evaluate"
        /\ obs.phase = "resume"

\* ---------------------------------------------------------------------- C26
\* C26: the response that dispatch returns carries the requestId of the
\* request it answers and the id of the node whose send resolved, and a
\* failover retry is sent under the requestId of the first attempt; the
\* requestId is the one evaluate() built from its counter
C26_ResponseIds ==
    [][/\ \A d \in Disp :
            (ev[d].pc = "sending" /\ ev'[d] # ev[d])
            => /\ obs'.op = "evaluate"
               /\ obs'.req = ev[d].req
               /\ obs'.res = "ok" => (ev[d].out = "ok" /\ obs'.node = ev[d].id)
               /\ ev'[d].pc = "sending" => ev'[d].req = ev[d].req
       /\ \A d \in Disp :
            (ev[d].pc = "idle" /\ ev'[d].pc = "sending")
            => (ev'[d].req = requestCounter' /\ requestCounter' = requestCounter + 1)]_vars

\* dispatch returned the response of a failover retry (its second send)
\* while another request is in flight under a different requestId
C26_Witness ==
    /\ obs.op = "evaluate"
    /\ obs.phase = "resume"
    /\ obs.res = "ok"
    /\ obs.sends = 2
    /\ obs.req = 1
    /\ \E d \in Disp : ev[d].pc = "sending" /\ ev[d].req = 2

\* ---------------------------------------------------------------------- C27
\* the positions of the status-change notifications among those of a step
StatusChanges(emitted) ==
    {k \in 1..Len(emitted) : emitted[k][1] = "manager" /\ emitted[k][2] = "status-change"}

\* C27: a step that changes the status emits exactly one status-change
\* notification, and every status-change notification carries the status
\* the step leaves, so the last one emitted names the current status
C27_StatusNotified ==
    [][/\ status' # status => Cardinality(StatusChanges(obs'.emitted)) = 1
       /\ \A k \in StatusChanges(obs'.emitted) : obs'.emitted[k][3] = status']_vars

\* resume() has taken a paused deployment back to running and said so
C27_Witness ==
    /\ obs.op = "resume"
    /\ obs.res = "ok"
    /\ status = "running"
    /\ obs.emitted = <<MgrEvent("status-change", "running")>>

\* ---------------------------------------------------------------------- C28
\* the weight the configuration gives the node, 1.0 when it gives none
ConfiguredWeight(nodeConfig) ==
    IF nodeConfig.weight = NoWeight THEN 1 ELSE nodeConfig.weight

\* C28: every registered node that the configuration describes carries the
\* weight of its node configuration, 1.0 when the configuration gives none
C28_ConfiguredWeights ==
    \A c \in Coords : \A j \in 1..Len(nodes[c]) : \A k \in 1..Len(cfg.nodes) :
        nodes[c][j].id = cfg.nodes[k].id
        => nodes[c][j].weight = ConfiguredWeight(cfg.nodes[k])

\* ---------------------------------------------------------------------- C30
\* the defects of a configuration argument, stated on the argument as a whole
HasDefect(config) ==
    \/ config.name \in {"absent", ""}
    \/ config.modulePath = ""
    \/ config.modelPath = ""
    \/ ~config.hasNodes
    \/ config.nodes = <<>>
    \/ \E k \in 1..Len(config.nodes) :
          \/ config.nodes[k].id = NoId
          \/ config.nodes[k].address = ""
          \/ config.nodes[k].port \notin 1..65535
    \/ \E j, k \in 1..Len(config.nodes) :
          j # k /\ config.nodes[j].id = config.nodes[k].id

\* C30: the constructor throws, leaving no manager, no coordinator and
\* nothing deployed, exactly when the configuration has a defect; a
\* configuration without defect yields a stopped manager
C30_Validation ==
    [][(status = "none" /\ obs'.op = "new")
        => IF HasDefect(cfg)
           THEN /\ obs'.res = "ValidationError"
                /\ status' = "none" /\ cfg' = cfg
                /\ coordinator' = 0 /\ nCoord' = 0
                /\ nodes' = nodes /\ isolates' = isolates
           ELSE /\ obs'.res = "ok"
                /\ status' = "stopped"
                /\ coordinator' = 0]_vars

\* the constructor refused a configuration whose only defect is that its
\* two nodes share an id
C30_Witness ==
    /\ obs.op = "new"
    /\ obs.res = "ValidationError"
    /\ status = "none"
    /\ validateDeploymentConfig(cfg) = <<"duplicate">>

\* ---------------------------------------------------------------------- C31
\* C31: with failover enabled, every dispatch that is suspended at a send
\* ends, with a response or with an error, provided every send and every
\* probe that was issued is settled
C31_DispatchTerminates ==
    \A d \in FlapDisp : (ev[d].pc = "sending") ~> (ev[d].pc = "idle")

\* ---------------------------------------------------------------------- C32
\* the node is registered, the isolate map holds no isolate under its id, and
\* no probe of it is in flight
NoHandle(c, id) ==
    /\ Has(nodes[c], id)
    /\ isolates[c][id] = "none"
    /\ \A t \in Ticks : ~(tick[t].pc = "probing" /\ tick[t].c = c /\ tick[t].id = id)

\* C32: a step of the health check sends no probe to a registered node
\* without isolate, raises no notification for it and leaves its isHealthy
\* as it was
C32_NoIsolateSkipped ==
    [][obs'.op = "healthCheck"
        => \A c \in Coords : \A id \in NodeIds :
              NoHandle(c, id)
              => /\ \A t \in Ticks : tick'[t].id # id
                 /\ ~NotifiesUnhealthy(id)
                 /\ NodeOf(nodes'[c], id).isHealthy = NodeOf(nodes[c], id).isHealthy]_vars

\* ---------------------------------------------------------------------- C33
\* the ticks of coordinator c that are suspended at a probe
TicksInProgress(c) == {t \in Ticks : tick[t].pc = "probing" /\ tick[t].c = c}

\* the registry entry at place j has an isolate in the map
LiveAt(c, j) == isolates[c][nodes[c][j].id] # "none"

\* C33: no step leaves two health-check ticks of one coordinator in progress,
\* and a tick goes through the registry in order with one probe for every
\* node that has an isolate: each of its steps probes the next such node and
\* it ends when none is left
C33_SingleTick ==
    [][/\ \A c \in Coords : Cardinality(TicksInProgress(c))' <= 1
       /\ \A t \in Ticks :
            (obs'.op = "healthCheck" /\ tick'[t] # tick[t])
            => LET c == IF tick[t].pc = "idle" THEN tick'[t].c ELSE tick[t].c
                   from == IF tick[t].pc = "idle" THEN 0 ELSE tick[t].pos
               IN IF tick'[t].pc = "probing"
                  THEN /\ tick'[t].pos > from
                       /\ tick'[t].pos <= Len(nodes[c])
                       /\ nodes[c][tick'[t].pos].id = tick'[t].id
                       /\ LiveAt(c, tick'[t].pos)
                       /\ \A j \in (from + 1)..(tick'[t].pos - 1) : ~LiveAt(c, j)
                  ELSE \A j \in (from + 1)..Len(nodes[c]) : ~LiveAt(c, j)]_vars

\* ---------------------------------------------------------------------- C34
\* the step runs dispatch, which calls selectNode: evaluate() past its
\* guards, or the retry after a rejected send under failover
SelectionMade ==
    /\ obs'.op = "evaluate"
    /\ \/ obs'.phase = "call" /\ status = "running" /\ coordinator # 0
       \/ cfg.failover /\ \E d \in Disp : SendFailed(d)

\* C34: the round-robin cursor never decreases, and under the round-robin
\* strategy a step in which dispatch selects moves it up by exactly one,
\* whether a node was found or not (every registered node has an isolate, so
\* the step holds one selection)
C34_CursorAdvances ==
    [][/\ \A c \in Coords : roundRobinIndex'[c] >= roundRobinIndex[c]
       /\ (cfg.strategy = "round-robin" /\ SelectionMade)
          => \E c \in Coords : /\ nCoord >= c
                               /\ roundRobinIndex'[c] = roundRobinIndex[c] + 1]_vars

\* ---------------------------------------------------------------------- C35
RegisteredIds(c) == {nodes[c][j].id : j \in 1..Len(nodes[c])}

\* deploy() is rejected in this step by an error of its try block
DeployFails ==
    /\ obs'.op = "deploy"
    /\ obs'.phase = "resume"
    /\ obs'.res \notin {"ok", "pending"}

\* C35: the step in which deploy() fails sets the status to Error, emits
\* status-change and error, rejects with the error, and leaves the registry
\* and the isolates alone; in Error, until shutdown() is called, the
\* registered nodes and the isolates stay as they are; and the shutdown()
\* that takes the status from Error to Stopped leaves no registered node and
\* no running isolate
C35_DeployFailure ==
    [][/\ DeployFails
          => /\ status' = "error"
             /\ obs'.emitted = <<MgrEvent("status-change", "error"),
                                 MgrEvent("error", obs'.res)>>
             /\ nodes' = nodes
             /\ isolates' = isolates
       /\ (status = "error" /\ status' = "error" /\ NoShutdownSuspended')
          => /\ isolates' = isolates
             /\ \A c \in Coords : RegisteredIds(c)' = RegisteredIds(c)
       /\ (status = "error" /\ status' = "stopped")
          => /\ obs'.op = "shutdown"
             /\ \A c \in Coords : nodes'[c] = <<>> /\ RunningIds(c)' = {}]_vars

\* ---------------------------------------------------------------------- C36
\* C36: pause() and resume() change nothing but the status: the coordinator,
\* the registry with every node's isHealthy and connections, the isolates,
\* the timer and every suspended call stay as they are; while the status is
\* Paused the timer of the coordinator still starts ticks and a tick in
\* progress goes on; and a request in flight goes on to its end while
\* Paused, with the response of the send that resolves
C36_PauseFrame ==
    [][/\ obs'.op \in {"pause", "resume"}
          => UNCHANGED <<coordinator, requestCounter, cfg, coVars, procVars>>
       /\ (status = "paused" /\ coordinator # 0 /\ NoShutdownSuspended)
          => /\ healthCheckTimer[coordinator]
             /\ \A t \in OneTick :
                  IF tick[t].pc = "idle"
                  THEN ENABLED HealthCheckTick(t, coordinator)
                  ELSE ENABLED HealthCheckResume(t)
             /\ \A d \in LifeDisp :
                  (ev[d].pc = "sending" /\ ev[d].out = "ok")
                  => ENABLED EvaluateResume(d)
       /\ \A d \in Disp :
            (status = "paused" /\ ev[d].pc = "sending" /\ ev[d].out = "ok"
             /\ obs'.op = "evaluate" /\ ev'[d] # ev[d])
            => obs'.res = "ok" /\ obs'.req = ev[d].req]_vars

\* a request that was in flight when pause() was called has been answered
\* while the deployment is paused and a health-check tick is in progress
C36_Witness ==
    /\ status = "paused"
    /\ obs.op = "evaluate"
    /\ obs.phase = "resume"
    /\ obs.res = "ok"
    /\ \E t \in Ticks : tick[t].pc = "probing"
    /\ healthCheckTimer[coordinator]

\* ---------------------------------------------------------------------- C37
\* C37: a node registered by deployNode, also under the id of a node that
\* was removed, starts healthy with no connection; and when a send that was
\* issued to an instance no longer registered is settled, the registry stays
\* as it is, but for what the failover retry does as a dispatch of its own
C37_ReAddedDistinct ==
    [][/\ \A p \in NodeOps :
            (nodeOps[p].pc = "dnIsoSet" /\ nodeOps'[p].pc = "idle")
            => /\ Has(nodes'[nodeOps[p].c], nodeOps[p].id)
               /\ NodeOf(nodes'[nodeOps[p].c], nodeOps[p].id).isHealthy
               /\ NodeOf(nodes'[nodeOps[p].c], nodeOps[p].id).connections = 0
       /\ \A d \in Disp :
            (/\ ev[d].pc = "sending" /\ ev[d].det
             /\ obs'.op = "evaluate" /\ ev'[d] # ev[d])
            => IF ev[d].out = "fail" /\ cfg.failover
               THEN \E r \in dispatch(nodes[ev[d].c], roundRobinIndex[ev[d].c],
                                      isolates[ev[d].c]) :
                       nodes'[ev[d].c] = r.nds
               ELSE nodes' = nodes]_vars

\* deployNode has just registered a node under the id of a removed node
\* while a send to the removed instance is in flight
C37_Witness ==
    /\ obs.op = "deployNode"
    /\ obs.res = "ok"
    /\ \E d \in Disp :
          /\ ev[d].pc = "sending"
          /\ ev[d].det
          /\ ev[d].id = obs.arg
          /\ Has(nodes[ev[d].c], ev[d].id)
          /\ NodeOf(nodes[ev[d].c], ev[d].id).isHealthy
          /\ NodeOf(nodes[ev[d].c], ev[d].id).connections = 0

\* ---------------------------------------------------------------------- C38
\* C38: no step leaves the status Running with no coordinator held by the
\* manager, and no evaluate() or scale() call fails with 'Coordinator not
\* initialized'
C38_RunningHasCoordinator ==
    [][/\ status' = "running" => coordinator' # 0
       /\ obs'.op \in {"evaluate", "scale"} => obs'.res # "NotInitialized"]_vars

\* ---------------------------------------------------------------------- C39
\* no call is suspended at an await and no health-check tick is in progress
Quiescent ==
    /\ dep.pc = "idle" /\ scl.pc = "idle" /\ NoShutdownSuspended
    /\ \A p \in NodeOps : nodeOps[p].pc = "idle"
    /\ \A d \in Disp : ev[d].pc = "idle"
    /\ \A t \in Ticks : tick[t].pc = "idle"

\* C39: when shutdown() has run to its end on a deployment, the status is
\* Stopped and nothing is in progress, every coordinator the deployment
\* created has an empty registry and a cancelled timer, and none of its
\* isolates is running, in the isolate map or out of it
C39_ShutdownComplete ==
    (status = "stopped" /\ obs.op = "shutdown" /\ Quiescent)
    => \A c \in 1..nCoord :
          /\ nodes[c] = <<>>
          /\ ~healthCheckTimer[c]
          /\ RunningIds(c) = {}
          /\ leaked[c] = {}

\* ----------------------------------------------------------------------- C40
\* the ids the isolate map of coordinator c's DisVMManager holds
IsolateIds(c) == {id \in NodeIds : isolates[c][id] # "none"}

NoNodeOpInProgress ==
    /\ NoShutdownSuspended
    /\ \A p \in NodeOps : nodeOps[p].pc = "idle"

\* C40: whenever no deployNode, removeNode or shutdown is in progress, the ids
\* of the registry are the ids of the isolate map, and each of these isolates
\* is running, whatever the interleaving of concurrent deployNode and
\* removeNode calls was, calls for one id included
C40_RegistryMatchesIsolates ==
    NoNodeOpInProgress
    => /\ RegisteredIds(1) = IsolateIds(1)
       /\ IsolateIds(1) = RunningIds(1)

\* two deployNode calls for one id ran concurrently and both have returned
\* (the isolate of the first is out of the map), no call is in progress, and
\* the id is registered with a running isolate
C40_Witness ==
    /\ NoNodeOpInProgress
    /\ obs.op = "deployNode"
    /\ obs.res = "ok"
    /\ obs.arg \in leaked[1]
    /\ Has(nodes[1], obs.arg)
    /\ isolates[1][obs.arg] = "running"

====
